---- MODULE Spec2Model ----
(***************************************************************************)
(* A model of the Compose resolution pipeline of compoviz: the include     *)
(* resolver, the extends resolver, the variable interpolator, the profile  *)
(* filter and the parseCompose orchestrator.                               *)
(*                                                                         *)
(* JavaScript values are modelled as tagged records [t, v]:                *)
(*   Str(s)  a string            Arr(s)  an array (a sequence of values)   *)
(*   Obj(f)  a plain object (a function from key strings to values)        *)
(*   Null    null                Undef   undefined (an absent property)    *)
(*   Path(p) a string that is a file path, held as its "/"-separated       *)
(*           segments, so that normalizePath is computed as the code does  *)
(*   Tmpl(s) a string held character by character, so that the regular     *)
(*           expressions of the interpolator are computed on it; a Str or  *)
(*           a Path holds no "$" character                                 *)
(* The insertion order of the keys of every model object is NameOrder.     *)
(***************************************************************************)
EXTENDS Integers, Sequences, FiniteSets, TLC

VARIABLES
    pc,        \* position of the running operation
    compose,   \* the document the operation holds
    result,    \* what the operation returned or raised ("none" before it ran)
    basePath,  \* the path of the file the document was read from
    fileMap,   \* FileMap: normalized path -> content of the file
    str,       \* the string being interpolated, character by character
    env,       \* Environment: variable name -> value
    throwOnError,  \* options.throwOnError of interpolate
    yamlString,    \* the text handed to parseCompose
    options,       \* the options of parseCompose
    errors,        \* the diagnostics parseCompose has collected
    meta,          \* the metadata parseCompose extracted ("none" before)
    heap           \* the objects of the caller and of the operation, by address

includeVars == <<basePath, fileMap>>
interpVars == <<str, throwOnError>>
parseVars == <<yamlString, options, errors, meta>>
vars == <<pc, compose, result, includeVars, interpVars, env, heap, parseVars>>

\* the variables an operation does not use
NoFiles == basePath = <<>> /\ fileMap = <<>>
NoString == str = <<>> /\ throwOnError = TRUE
NoParse == yamlString = "none" /\ options = "none" /\ errors = <<>> /\ meta = "none"

\* the operation is modelled on values; the identity of objects plays no part
NoHeap == heap = <<>>

----------------------------------------------------------------------------
(* JavaScript values                                                        *)

Str(s) == [t |-> "str", v |-> s]
Arr(s) == [t |-> "arr", v |-> s]
Obj(f) == [t |-> "obj", v |-> f]
Path(p) == [t |-> "path", v |-> p]
Tmpl(s) == [t |-> "tmpl", v |-> s]
True == [t |-> "bool", v |-> <<"true">>]
Null == [t |-> "null", v |-> <<>>]
Undef == [t |-> "undef", v |-> <<>>]

EmptyFn == [k \in {} |-> Undef]

Range(s) == {s[i] : i \in DOMAIN s}

\* !x
Truthy(x) ==
    CASE x.t = "undef" -> FALSE
      [] x.t = "null" -> FALSE
      [] x.t = "str" -> x.v # ""
      [] x.t = "path" -> x.v # <<>>
      [] x.t = "tmpl" -> x.v # <<>>
      [] OTHER -> TRUE

\* o[k] / o.k
Get(o, k) == IF o.t = "obj" /\ k \in DOMAIN o.v THEN o.v[k] ELSE Undef

\* k in o
Has(o, k) == o.t = "obj" /\ k \in DOMAIN o.v

\* { ...o, [k]: x }
Assign(o, k, x) ==
    Obj([j \in (DOMAIN o.v) \cup {k} |-> IF j = k THEN x ELSE o.v[j]])

\* const { [k]: _, ...rest } = o
Without(o, k) == Obj([j \in (DOMAIN o.v) \ {k} |-> o.v[j]])

\* the order in which Object.entries walks the keys of a model object
NameOrder == <<"a", "api", "b", "base", "c", "d", "db", "web">>

KeyOrder(o) == SelectSeq(NameOrder, LAMBDA k : k \in DOMAIN o.v)

\* [...s] of a string: its characters
Chars(s) ==
    CASE s = "" -> <<>>
      [] s = "80" -> <<Str("8"), Str("0")>>
      [] s = "81" -> <<Str("8"), Str("1")>>
      [] OTHER -> <<Str(s)>>

\* [...(x || [])]
Spread(x) ==
    IF ~Truthy(x) THEN <<>>
    ELSE IF x.t = "arr" THEN x.v
    ELSE IF x.t = "tmpl" THEN [i \in DOMAIN x.v |-> Tmpl(<<x.v[i]>>)]
    ELSE Chars(x.v)

----------------------------------------------------------------------------
(* pathResolver.js: a path is the sequence of its "/"-separated segments    *)

RECURSIVE NormalizeFrom(_, _, _)
NormalizeFrom(segments, i, normalized) ==
    IF i > Len(segments) THEN normalized
    ELSE LET segment == segments[i]
         IN  IF segment = "." THEN NormalizeFrom(segments, i + 1, normalized)
             ELSE IF segment = ".."
             THEN NormalizeFrom(segments, i + 1,
                      IF Len(normalized) > 0
                      THEN SubSeq(normalized, 1, Len(normalized) - 1)
                      ELSE normalized)
             ELSE NormalizeFrom(segments, i + 1, Append(normalized, segment))

normalizePath(path) == NormalizeFrom(path, 1, <<>>)

dirname(path) ==
    LET normalized == normalizePath(path)
    IN  IF Len(normalized) <= 1 THEN <<>>
        ELSE SubSeq(normalized, 1, Len(normalized) - 1)

joinPath(base, relativePath) ==
    IF base = <<>> THEN normalizePath(relativePath)
    ELSE IF relativePath = <<>> THEN normalizePath(base)
    ELSE LET cleanRelative ==
                 IF Len(relativePath) > 1 /\ relativePath[1] = "."
                 THEN Tail(relativePath) ELSE relativePath
         IN  normalizePath(base \o cleanRelative)

resolvePath(currentFile, targetPath) == joinPath(dirname(currentFile), targetPath)

----------------------------------------------------------------------------
(* extendsResolver.js                                                       *)

normalizeDependsOn(dependsOn) ==
    IF ~Truthy(dependsOn) THEN Obj(EmptyFn)
    ELSE IF dependsOn.t = "arr"
    THEN Obj([svc \in {x.v : x \in Range(dependsOn.v)} |->
                Obj("condition" :> Str("service_started"))])
    ELSE dependsOn

ConcatFields ==
    {"ports", "expose", "external_links", "dns", "dns_search", "tmpfs", "volumes"}

MergeFields ==
    {"environment", "labels", "build", "deploy", "logging", "depends_on"}

MERGE_STRATEGIES(key) ==
    IF key \in ConcatFields THEN "concat"
    ELSE IF key \in MergeFields THEN "merge"
    ELSE "override"

\* value !== null && typeof value === 'object' && !Array.isArray(value)
IsPlainObject(x) == x.t = "obj"

\* typeof x === 'object' && x (plain objects and arrays)
IsObjectLike(x) == x.t \in {"obj", "arr"}

\* Object.entries(x) / { ...x } : the own enumerable properties; an array
\* has its indices "0", "1", ... as keys
Props(x) ==
    IF x.t = "obj" THEN x.v
    ELSE IF x.t = "arr"
    THEN [k \in {ToString(i - 1) : i \in DOMAIN x.v} |->
            x.v[CHOOSE i \in DOMAIN x.v : ToString(i - 1) = k]]
    ELSE EmptyFn

RECURSIVE deepMerge(_, _)
deepMerge(base, override) ==
    IF ~IsObjectLike(base) THEN override
    ELSE IF ~IsObjectLike(override) THEN base
    ELSE LET b == Props(base)
             o == Props(override)
         IN  Obj([k \in (DOMAIN b) \cup (DOMAIN o) |->
                    IF k \notin DOMAIN o THEN b[k]
                    ELSE IF IsPlainObject(o[k])
                         THEN deepMerge(IF k \in DOMAIN b THEN b[k] ELSE Undef, o[k])
                         ELSE o[k]])

\* the mutant: the override's depends_on is merged as it was written
NormalizedServiceSkipped(s) == s

\* lines 97-105: depends_on is normalized only when it is truthy
NormalizedService(s) ==
    IF Truthy(Get(s, "depends_on"))
    THEN Assign(s, "depends_on", normalizeDependsOn(Get(s, "depends_on")))
    ELSE s

\* the mutant: a concatenate field is replaced by the override's list
ConcatValueReplaced(baseValue, value) ==
    Arr(IF value.t = "arr" THEN value.v ELSE <<value>>)

\* result[key] = [...(result[key] || []), ...(Array.isArray(value) ? value : [value])]
ConcatValue(baseValue, value) ==
    Arr(Spread(baseValue) \o (IF value.t = "arr" THEN value.v ELSE <<value>>))

mergeServiceConfigs(base, override) ==
    LET normalizedBase == NormalizedService(base)
        normalizedOverride == NormalizedService(override)
        b == normalizedBase.v
        o == normalizedOverride.v
    IN  Obj([key \in (DOMAIN b) \cup (DOMAIN o) |->
               IF key \notin DOMAIN o THEN b[key]
               ELSE LET value == o[key]
                        strategy == MERGE_STRATEGIES(key)
                        old == IF key \in DOMAIN b THEN b[key] ELSE Undef
                    IN  CASE strategy = "concat" -> ConcatValue(old, value)
                          [] strategy = "merge" ->
                               deepMerge(IF Truthy(old) THEN old ELSE Obj(EmptyFn), value)
                          [] OTHER -> value])

\* what a call returns or raises
Ok(x) == [kind |-> "ok", val |-> x, chain |-> <<>>, svc |-> ""]
Raise(kind, chain) == [kind |-> kind, val |-> Undef, chain |-> chain, svc |-> ""]

\* line 138: the name a service extends
ExtendedServiceName(service) ==
    LET ext == Get(service, "extends")
    IN  IF ext.t = "str" THEN ext ELSE Get(ext, "service")

\* line 149: allServices[extendedServiceName]
LookupService(allServices, name) ==
    IF name.t = "str" THEN Get(allServices, name.v) ELSE Undef

\* line 136: a service without (a truthy) extends is returned as it is
HasExtends(service) == Truthy(Get(service, "extends"))

\* the mutant: the message stops before the repeated service
CircularChainCut(visited, name) == visited

\* line 145: Array.from(visited).join(' -> ') -> extendedServiceName
CircularChain(visited, name) == Append(visited, name)

RECURSIVE resolveServiceExtends(_, _, _)
resolveServiceExtends(service, allServices, visited) ==
    IF service.t \in {"null", "undef"} THEN Raise("typeerror", <<>>)
    ELSE IF ~HasExtends(service) THEN Ok(service)
    ELSE LET extendedServiceName == ExtendedServiceName(service)
             extendedService == LookupService(allServices, extendedServiceName)
         IN  IF extendedServiceName \in Range(visited)
             THEN Raise("circular", CircularChain(visited, extendedServiceName))
             ELSE IF ~Truthy(extendedService)
             THEN Raise("notfound", <<extendedServiceName>>)
             ELSE LET resolvedBase ==
                          resolveServiceExtends(extendedService, allServices,
                                                Append(visited, extendedServiceName))
                  IN  IF resolvedBase.kind # "ok" THEN resolvedBase
                      ELSE Ok(mergeServiceConfigs(resolvedBase.val,
                                                  Without(service, "extends")))

resolveAllExtends(c) ==
    IF ~Truthy(Get(c, "services")) THEN Ok(c)
    ELSE LET services == Get(c, "services")
             names == KeyOrder(services)
             res(n) == resolveServiceExtends(services.v[n], services, <<>>)
             failed == {i \in DOMAIN names : res(names[i]).kind # "ok"}
         IN  IF failed # {}
             THEN LET first == CHOOSE i \in failed : \A j \in failed : i <= j
                  IN  [res(names[first]) EXCEPT !.svc = names[first]]
             ELSE Ok(Assign(c, "services",
                            Obj([n \in DOMAIN services.v |-> res(n).val])))

----------------------------------------------------------------------------
(* The documents resolveAllExtends is applied to                            *)

ServiceNames == {"a", "b", "c"}

\* "zz" names no service of any document
ExtendsTargets == ServiceNames \cup {"zz"}

ExtendsValues ==
    {Str("")} \cup {Str(n) : n \in ExtendsTargets}
              \cup {Obj("service" :> Str(n)) : n \in ServiceNames}

DependsOnObject == Obj("db" :> Obj("condition" :> Str("service_healthy")))

ServiceBodies ==
    { EmptyFn,
      "ports" :> Arr(<<Str("80")>>),
      ("ports" :> Arr(<<Str("81"), Str("80")>>)) @@ ("depends_on" :> Arr(<<Str("db")>>)),
      "depends_on" :> DependsOnObject,
      ("image" :> Str("img")) @@ ("volumes" :> Arr(<<Str("data")>>))
          @@ ("depends_on" :> Arr(<<Str("db"), Str("mq")>>)),
      ("image" :> Str("alt")) @@ ("depends_on" :> Null) }

ExtendsServices ==
    {Obj(body) : body \in ServiceBodies}
    \cup {Obj(("extends" :> e) @@ body) : e \in ExtendsValues, body \in ServiceBodies}

ExtendsDocuments ==
    {Obj("services" :> Obj(f)) : f \in [ServiceNames -> ExtendsServices]}

ExtendsInit ==
    /\ pc = "extends"
    /\ compose \in ExtendsDocuments
    /\ result = "none"
    /\ env = <<>>
    /\ NoFiles /\ NoString /\ NoParse /\ NoHeap

ResolveAllExtends ==
    /\ pc = "extends"
    /\ result' = resolveAllExtends(compose)
    /\ pc' = "done"
    /\ UNCHANGED <<compose, includeVars, interpVars, env, heap, parseVars>>

ExtendsNext == ResolveAllExtends

SpecExtends == ExtendsInit /\ [][ExtendsNext]_vars

----------------------------------------------------------------------------
(* Properties of resolveAllExtends                                          *)

InServices == Get(compose, "services").v
OutServices == Get(result.val, "services").v
Returned == pc = "done" /\ result.kind = "ok"

\* the service that n extends, as the document writes it
Target(n) == ExtendedServiceName(InServices[n]).v

\* n extends an existing service
Edge(n) == HasExtends(InServices[n]) /\ Target(n) \in DOMAIN InServices

\* the services met by following extends from n for at most k steps
RECURSIVE Ancestors(_, _)
Ancestors(n, k) ==
    IF k = 0 \/ ~Edge(n) THEN {}
    ELSE {Target(n)} \cup Ancestors(Target(n), k - 1)

OnCycle(n) == n \in Ancestors(n, Cardinality(DOMAIN InServices))
HasCycle == \E n \in DOMAIN InServices : OnCycle(n)
NoMissingBase ==
    \A n \in DOMAIN InServices : HasExtends(InServices[n]) => Edge(n)

\* C3 (as claimed): when resolveAllExtends returns, no service of the returned
\* document carries an extends field, whatever the field held in the input.
C3_NoExtendsInOutput ==
    Returned => \A n \in DOMAIN OutServices : ~Has(OutServices[n], "extends")

\* the names a depends_on value lists
DependsOnNames(d) ==
    IF d.t = "arr" THEN {x.v : x \in Range(d.v)}
    ELSE IF d.t = "obj" THEN DOMAIN d.v
    ELSE {}

\* the dependency names of n and of every service it inherits from
RECURSIVE ChainDependsOn(_)
ChainDependsOn(n) ==
    DependsOnNames(Get(InServices[n], "depends_on"))
    \cup (IF HasExtends(InServices[n]) THEN ChainDependsOn(Target(n)) ELSE {})

\* C4 (as claimed): after resolveAllExtends returns, every service that has a
\* depends_on has it in object form, whether or not the service uses extends.
C4_DependsOnObjectFormEverywhere ==
    Returned =>
        \A n \in DOMAIN OutServices :
            Truthy(Get(OutServices[n], "depends_on"))
                => Get(OutServices[n], "depends_on").t = "obj"

\* C4 (amended): a service that itself uses extends never comes out with an
\* array depends_on: its depends_on is a mapping keyed by the dependency names
\* of its whole extends chain; a service without extends is returned as written.
C4_DependsOnObjectFormWhenExtending ==
    Returned =>
        \A n \in DOMAIN OutServices :
            IF HasExtends(InServices[n])
            THEN LET d == Get(OutServices[n], "depends_on")
                 IN  /\ d.t # "arr"
                     /\ ChainDependsOn(n) # {} =>
                            /\ d.t = "obj"
                            /\ DOMAIN d.v = ChainDependsOn(n)
                            /\ \A k \in DOMAIN d.v : Has(d.v[k], "condition")
            ELSE OutServices[n] = InServices[n]

C4_Witness ==
    /\ Returned
    /\ \E n \in DOMAIN OutServices :
          /\ HasExtends(InServices[n])
          /\ Get(InServices[n], "depends_on").t = "arr"
          /\ Get(InServices[Target(n)], "depends_on").t = "arr"
          /\ Get(OutServices[n], "depends_on").t = "obj"

OwnItems(s, f) == Spread(Get(s, f))

\* the lists of the field f of n's ancestors, root ancestor first, then n's own
RECURSIVE ChainItems(_, _)
ChainItems(n, f) ==
    (IF HasExtends(InServices[n]) THEN ChainItems(Target(n), f) ELSE <<>>)
    \o OwnItems(InServices[n], f)

\* C7: for every concatenate field, a service that extends a base holds the
\* resolved base's items followed by its own, order and duplicates kept, and
\* the resolved list is the concatenation of the lists along the extends chain
\* from the root ancestor down to the service.
C7_ConcatAlongChain ==
    Returned =>
        \A n \in DOMAIN OutServices : \A f \in ConcatFields :
            /\ OwnItems(OutServices[n], f) = ChainItems(n, f)
            /\ HasExtends(InServices[n]) =>
                  OwnItems(OutServices[n], f) =
                      OwnItems(OutServices[Target(n)], f) \o OwnItems(InServices[n], f)
            /\ Has(OutServices[n], f) => Get(OutServices[n], f).t = "arr"

C7_Witness ==
    /\ Returned
    /\ Target("a") = "b" /\ Target("b") = "c"
    /\ HasExtends(InServices["a"]) /\ HasExtends(InServices["b"])
    /\ Get(OutServices["a"], "ports") =
          Arr(<<Str("80"), Str("81"), Str("80"), Str("80")>>)

----------------------------------------------------------------------------
(* includeResolver.js                                                       *)

\* the content of a file: its text is empty, is not YAML, or is the YAML of a
\* value (yaml.load returns it)
EmptyText == [text |-> "empty", yaml |-> Null]
BadText == [text |-> "bad", yaml |-> Null]
Yaml(doc) == [text |-> "yaml", yaml |-> doc]

CollectionKeys == {"services", "networks", "volumes", "secrets", "configs"}

\* the mutant: the entries of the base replace those of the override
SpreadUnionBaseWins(old, value) ==
    LET b == Props(old)
        o == Props(value)
    IN  Obj([k \in (DOMAIN b) \cup (DOMAIN o) |->
               IF k \in DOMAIN b THEN b[k] ELSE o[k]])

\* { ...(result[key] || {}), ...(value || {}) }
SpreadUnion(old, value) ==
    LET b == Props(old)
        o == Props(value)
    IN  Obj([k \in (DOMAIN b) \cup (DOMAIN o) |->
               IF k \in DOMAIN o THEN o[k] ELSE b[k]])

mergeComposeFiles(base, override) ==
    IF ~Truthy(override) THEN (IF Truthy(base) THEN base ELSE Obj(EmptyFn))
    ELSE IF ~Truthy(base) THEN override
    ELSE LET b == Props(base)
             o == Props(override)
         IN  Obj([key \in (DOMAIN b) \cup (DOMAIN o) |->
                    IF key \notin DOMAIN o THEN b[key]
                    ELSE IF key = "name" THEN o[key]
                    ELSE IF key \in CollectionKeys
                         THEN SpreadUnion(IF key \in DOMAIN b THEN b[key] ELSE Undef,
                                          o[key])
                         ELSE o[key]])

\* typeof x === 'string'
IsString(x) == x.t \in {"str", "path", "tmpl"}

\* line 288: a single include is treated as a list of one
IncludeList(c) ==
    LET inc == Get(c, "include")
    IN  IF inc.t = "arr" THEN inc.v ELSE <<inc>>

\* lines 292-294
IncludePath(includeSpec) ==
    IF IsString(includeSpec) THEN includeSpec ELSE Get(includeSpec, "path")

\* the mutant: the chain names only the repeated file
IncludeChainLast(newVisited, absoluteInclude) == <<absoluteInclude>>

\* line 307: Array.from(newVisited).join(' -> ') -> absoluteInclude
IncludeChain(newVisited, absoluteInclude) == Append(newVisited, absoluteInclude)

\* the mutant: the call for one include adds the file to the caller's set
VisitedForNextShared(newVisited, absoluteInclude) ==
    Append(newVisited, absoluteInclude)

\* line 277, `new Set(visited)`: the call for one include works on a copy,
\* so the next include of the list is checked against the same set
VisitedForNext(newVisited, absoluteInclude) == newVisited

RECURSIVE resolveIncludes(_, _, _, _)
RECURSIVE IncludeLoop(_, _, _, _, _, _)

\* lines 290-335: the loop over the includes, from the i-th on
IncludeLoop(includes, i, merged, currentFile, fm, newVisited) ==
    IF i > Len(includes) THEN Ok(merged)
    ELSE LET includePath == IncludePath(includes[i])
         IN  IF ~Truthy(includePath)
             THEN IncludeLoop(includes, i + 1, merged, currentFile, fm, newVisited)
             ELSE LET absoluteInclude == resolvePath(currentFile, includePath.v)
                  IN  IF absoluteInclude \in Range(newVisited)
                      THEN Raise("circular", IncludeChain(newVisited, absoluteInclude))
                      ELSE IF \/ absoluteInclude \notin DOMAIN fm
                              \/ fm[absoluteInclude].text = "empty"
                      THEN Raise("notfound", <<includePath.v, absoluteInclude>>)
                      ELSE IF fm[absoluteInclude].text = "bad"
                      THEN Raise("parse", <<includePath.v>>)
                      ELSE LET resolvedInclude ==
                                   resolveIncludes(fm[absoluteInclude].yaml,
                                                   absoluteInclude, fm, newVisited)
                           IN  IF resolvedInclude.kind # "ok" THEN resolvedInclude
                               ELSE IncludeLoop(includes, i + 1,
                                        mergeComposeFiles(resolvedInclude.val, merged),
                                        currentFile, fm,
                                        VisitedForNext(newVisited, absoluteInclude))

resolveIncludes(c, currentFile, fm, visited) ==
    IF ~Truthy(c) \/ ~Truthy(Get(c, "include")) THEN Ok(c)
    ELSE LET absoluteCurrent == normalizePath(currentFile)
         IN  IF absoluteCurrent \in Range(visited)
             THEN Raise("circular", <<absoluteCurrent>>)
             ELSE IncludeLoop(IncludeList(c), 1, Without(c, "include"),
                              currentFile, fm, Append(visited, absoluteCurrent))

----------------------------------------------------------------------------
(* The files resolveIncludes is applied to: the root file a.yml, and the    *)
(* files b.yml and sub/c.yml of the FileMap                                 *)

PathA == <<"a.yml">>
PathB == <<"b.yml">>
PathC == <<"sub", "c.yml">>

IncludesOfA ==
    { <<".", "b.yml">>, <<"sub", "c.yml">>, <<"sub", "..", "a.yml">>, <<"zz.yml">> }
IncludesOfB ==
    { <<"b.yml">>, <<".", "sub", "c.yml">>, <<"sub", "..", ".", "a.yml">> }
IncludesOfC ==
    { <<"..", "b.yml">>, <<".", "c.yml">>, <<"..", "sub", "..", "a.yml">> }

\* an include entry: a bare path string or {path: ...}
IncludeSpecs(paths) ==
    {Path(p) : p \in paths}
    \cup {Obj("path" :> Path(CHOOSE p \in paths : TRUE))}

\* the values of the include key: a single path, a list of at most two
\* entries, or null (the key written with no value)
IncludeValues(paths) ==
    {Null, Arr(<<>>), Path(CHOOSE p \in paths : TRUE)}
    \cup {Arr(<<x>>) : x \in IncludeSpecs(paths)}
    \cup {Arr(<<x, y>>) : x \in IncludeSpecs(paths), y \in IncludeSpecs(paths)}

\* an entry of a collection, marked with the file that wrote it
Entry(file, fields) == Obj([f \in fields |-> Str(file)])

BodyA ==
    ("services" :> Obj("web" :> Entry("a", {"image"})))
    @@ ("networks" :> Obj("net" :> Entry("a", {"driver"})))
BodyB ==
    ("services" :> Obj(("web" :> Entry("b", {"image", "user"}))
                       @@ ("api" :> Entry("b", {"image"}))))
    @@ ("networks" :> Obj("net" :> Entry("b", {"driver", "name"})))
    @@ ("volumes" :> Obj("data" :> Entry("b", {"driver"})))
BodyC ==
    ("services" :> Obj(("api" :> Entry("c", {"image", "user"}))
                       @@ ("db" :> Entry("c", {"image"}))))
    @@ ("secrets" :> Obj("key" :> Entry("c", {"file"})))
    @@ ("configs" :> Obj("cfg" :> Entry("c", {"file"})))

FileDocuments(body, paths) ==
    {Obj(body)} \cup {Obj(("include" :> i) @@ body) : i \in IncludeValues(paths)}

RootDocuments ==
    FileDocuments(BodyA, IncludesOfA)
    \cup {Obj("include" :> i) : i \in {Arr(<<Path(<<".", "b.yml">>)>>)}}

FileMaps ==
    { (PathB :> b) @@ (PathC :> c) :
          b \in {Yaml(d) : d \in FileDocuments(BodyB, IncludesOfB)} \cup {EmptyText, BadText},
          c \in {Yaml(d) : d \in FileDocuments(BodyC, IncludesOfC)} }
    \cup { PathB :> Yaml(d) : d \in FileDocuments(BodyB, IncludesOfB) }

IncludesInit ==
    /\ pc = "include"
    /\ compose \in RootDocuments
    /\ basePath \in {PathA, <<".", "a.yml">>}
    /\ fileMap \in FileMaps
    /\ result = "none"
    /\ env = <<>>
    /\ NoString /\ NoParse /\ NoHeap

ResolveIncludes ==
    /\ pc = "include"
    /\ result' = resolveIncludes(compose, basePath, fileMap, <<>>)
    /\ pc' = "done"
    /\ UNCHANGED <<compose, includeVars, interpVars, env, heap, parseVars>>

IncludesNext == ResolveIncludes

SpecIncludes == IncludesInit /\ [][IncludesNext]_vars

----------------------------------------------------------------------------
(* Properties of resolveIncludes                                            *)

RootPath == normalizePath(basePath)

\* the file of the FileMap at path p can be loaded and parsed
Loadable(p) == p \in DOMAIN fileMap /\ fileMap[p].text = "yaml"

\* the document of the file at path p
FileDoc(p) ==
    IF p = RootPath THEN compose
    ELSE IF Loadable(p) THEN fileMap[p].yaml
    ELSE Undef

\* the resolved paths the file at p includes
IncludeTargets(p) ==
    IF ~Truthy(Get(FileDoc(p), "include")) THEN {}
    ELSE LET includes == IncludeList(FileDoc(p))
         IN  {resolvePath(p, IncludePath(includes[i]).v) :
                 i \in {j \in DOMAIN includes : Truthy(IncludePath(includes[j]))}}

\* the paths met by following includes from p through at most k files
RECURSIVE Included(_, _)
Included(p, k) ==
    IF k = 0 THEN {}
    ELSE IncludeTargets(p)
         \cup UNION {Included(q, k - 1) : q \in IncludeTargets(p)}

FileCount == Cardinality(DOMAIN fileMap) + 1
ReachedFiles == {RootPath} \cup Included(RootPath, FileCount)
IncludeCycle == \E p \in ReachedFiles : p \in Included(p, FileCount)
AllLoadable == \A p \in ReachedFiles : p = RootPath \/ Loadable(p)

CollectionNames(d, c) == DOMAIN Props(Get(d, c))

\* C8 (as claimed): in the document resolveIncludes returns, every collection
\* has the keys of the current file and of all transitively included files,
\* an entry the current file defines is the current file's entry unchanged,
\* and the document has no include key.
C8_IncludesMergedAndStripped ==
    (pc = "done" /\ result.kind = "ok") =>
        /\ \A c \in CollectionKeys :
              /\ CollectionNames(result.val, c) =
                     UNION {CollectionNames(FileDoc(p), c) : p \in ReachedFiles}
              /\ \A k \in CollectionNames(compose, c) :
                     Get(Get(result.val, c), k) = Get(Get(compose, c), k)
        /\ ~Has(result.val, "include")

----------------------------------------------------------------------------
(* variableInterpolator.js: a string is the sequence of its characters      *)

\* s.includes(sub), and the index of the first occurrence of sub from i on
OccursAt(s, sub, i) ==
    /\ i + Len(sub) - 1 <= Len(s)
    /\ \A k \in 1..Len(sub) : s[i + k - 1] = sub[k]

Includes(s, sub) == \E i \in 1..Len(s) : OccursAt(s, sub, i)

IndexFrom(s, sub, i) ==
    IF \E j \in i..Len(s) : OccursAt(s, sub, j)
    THEN CHOOSE j \in i..Len(s) :
             /\ OccursAt(s, sub, j)
             /\ \A k \in i..(j - 1) : ~OccursAt(s, sub, k)
    ELSE 0

\* [first, second] = s.split(sep), for an s that includes sep
SplitFirst(s, sep) == SubSeq(s, 1, IndexFrom(s, sep, 1) - 1)

SplitSecond(s, sep) ==
    LET from == IndexFrom(s, sep, 1) + Len(sep)
        next == IndexFrom(s, sep, from)
    IN  IF next = 0 THEN SubSeq(s, from, Len(s)) ELSE SubSeq(s, from, next - 1)

\* lines 98-121: which operator the expression is read with
Operator(expression) ==
    IF Includes(expression, <<":", "?">>) THEN <<":", "?">>
    ELSE IF /\ Includes(expression, <<"?">>)
            /\ ~Includes(expression, <<":", "-">>)
            /\ ~Includes(expression, <<"-">>) THEN <<"?">>
    ELSE IF Includes(expression, <<":", "-">>) THEN <<":", "-">>
    ELSE IF Includes(expression, <<"-">>) THEN <<"-">>
    ELSE <<>>

Returns(text) == [kind |-> "ok", val |-> text, msg |-> <<>>]
Throws(message) == [kind |-> "error", val |-> <<>>, msg |-> message]

substituteVariable(expression, environment) ==
    LET op == Operator(expression)
        varName == IF op = <<>> THEN expression ELSE SplitFirst(expression, op)
        hasError == op \in {<<":", "?">>, <<"?">>}
        hasDefault == op \in {<<":", "-">>, <<"-">>}
        text == IF op = <<>> THEN <<>> ELSE SplitSecond(expression, op)
        requireNonEmpty == op \in {<<":", "?">>, <<":", "-">>}
        requireSet == op \in {<<"?">>, <<"-">>}
        isSet == varName \in DOMAIN environment
        isEmpty == ~isSet \/ environment[varName] = <<>>
    IN  IF hasError /\ text # <<>> /\ requireNonEmpty /\ isEmpty THEN Throws(text)
        ELSE IF hasError /\ text # <<>> /\ requireSet /\ ~isSet THEN Throws(text)
        ELSE IF hasDefault /\ requireNonEmpty /\ isEmpty THEN Returns(text)
        ELSE IF hasDefault /\ requireSet /\ ~isSet THEN Returns(text)
        ELSE Returns(IF isSet THEN environment[varName] ELSE <<>>)

\* the placeholder '\x00ESCAPED_DOLLAR\x00' that stands for an escaped dollar
EscapedDollar == "ESC"

\* the mutant: no "$$" is replaced by the placeholder
PreprocessSkipped(s, i) == SubSeq(s, i, Len(s))

\* str.replace(/\$\$/g, placeholder), from the i-th character on
RECURSIVE Preprocess(_, _)
Preprocess(s, i) ==
    IF i > Len(s) THEN <<>>
    ELSE IF i < Len(s) /\ s[i] = "$" /\ s[i + 1] = "$"
    THEN <<EscapedDollar>> \o Preprocess(s, i + 2)
    ELSE <<s[i]>> \o Preprocess(s, i + 1)

\* resolved.replace(new RegExp(placeholder, 'g'), '$')
Restore(s) == [i \in DOMAIN s |-> IF s[i] = EscapedDollar THEN "$" ELSE s[i]]

\* VARIABLE_REGEX matches at i: "${", then one or more characters that are
\* not "}", then "}", the "$" not preceded by "$". The index of the closing
\* brace, or 0 when there is no match at i.
MatchEnd(s, i) ==
    IF /\ i + 3 <= Len(s)
       /\ s[i] = "$" /\ s[i + 1] = "{" /\ s[i + 2] # "}"
       /\ (i = 1 \/ s[i - 1] # "$")
       /\ \E j \in (i + 3)..Len(s) : s[j] = "}"
    THEN CHOOSE j \in (i + 3)..Len(s) :
             s[j] = "}" /\ \A k \in (i + 3)..(j - 1) : s[k] # "}"
    ELSE 0

\* expression.split(/[:-?]/)[0]: the range ":" to "?" is : ; < = > ?
NameStops == {":", ";", "<", "=", ">", "?"}

VarNameOf(expression) ==
    IF \E i \in DOMAIN expression : expression[i] \in NameStops
    THEN SubSeq(expression, 1,
                (CHOOSE i \in DOMAIN expression :
                    /\ expression[i] \in NameStops
                    /\ \A k \in 1..(i - 1) : expression[k] \notin NameStops) - 1)
    ELSE expression

\* the mutant: a failing reference is replaced by nothing
KeptMatchDropped(s, i, j) == <<>>

\* line 190, `return match`: the text of the failing reference
KeptMatch(s, i, j) == SubSeq(s, i, j)

\* lines 174-192: the replace of every match from the i-th character on;
\* acc is what was produced so far
RECURSIVE ReplaceFrom(_, _, _, _, _)
ReplaceFrom(s, i, environment, throwing, acc) ==
    IF i > Len(s) THEN acc
    ELSE LET j == MatchEnd(s, i)
         IN  IF j = 0
             THEN ReplaceFrom(s, i + 1, environment, throwing,
                              [acc EXCEPT !.val = Append(@, s[i])])
             ELSE LET expression == SubSeq(s, i + 2, j - 1)
                      varName == VarNameOf(expression)
                      seen == [acc EXCEPT
                                 !.hasVariable = TRUE,
                                 !.variables =
                                     IF varName \in Range(@) THEN @
                                     ELSE Append(@, varName)]
                      r == substituteVariable(expression, environment)
                  IN  IF r.kind = "ok"
                      THEN ReplaceFrom(s, j + 1, environment, throwing,
                                       [seen EXCEPT !.val = @ \o r.val])
                      ELSE LET told == [seen EXCEPT !.reported =
                                           Append(@, [msg |-> r.msg,
                                                      varName |-> varName])]
                           IN  IF throwing
                               THEN [told EXCEPT !.kind = "error", !.msg = r.msg]
                               ELSE ReplaceFrom(s, j + 1, environment, throwing,
                                        [told EXCEPT !.val = @ \o KeptMatch(s, i, j)])

\* what interpolateString returns (kind "ok") or raises (kind "error", msg);
\* reported lists the calls of options.onError
interpolateString(s, environment, throwing) ==
    LET replaced == ReplaceFrom(Preprocess(s, 1), 1, environment, throwing,
                                [kind |-> "ok", val |-> <<>>, msg |-> <<>>,
                                 hasVariable |-> FALSE, variables |-> <<>>,
                                 reported |-> <<>>])
    IN  [replaced EXCEPT !.val = Restore(@)]

----------------------------------------------------------------------------
(* The strings and environments interpolate is applied to                   *)

MaxText == 3

TextChars == {"d", "-", ":", "?"}

RECURSIVE TextsUpTo(_)
TextsUpTo(n) ==
    IF n = 0 THEN {<<>>}
    ELSE TextsUpTo(n - 1)
         \cup {Append(t, c) : t \in {u \in TextsUpTo(n - 1) : Len(u) = n - 1},
                             c \in TextChars}

Texts == TextsUpTo(MaxText)

VarX == <<"X">>

Operators == {<<":", "-">>, <<"-">>, <<":", "?">>, <<"?">>}

\* the reference ${X<op><text>}
Reference(name, op, text) == <<"$", "{">> \o name \o op \o text \o <<"}">>

References == {Reference(VarX, op, t) : op \in Operators, t \in Texts}

MaxEscaped == 6

EscapedChars == {"$", "{", "X", "}"}

\* the strings of at most n of the characters "$", "{", "X", "}"
RECURSIVE EscapedUpTo(_)
EscapedUpTo(n) ==
    IF n = 0 THEN {<<>>}
    ELSE EscapedUpTo(n - 1)
         \cup {Append(t, c) : t \in {u \in EscapedUpTo(n - 1) : Len(u) = n - 1},
                             c \in EscapedChars}

EscapedTexts == EscapedUpTo(MaxEscaped)

Environments ==
    { [n \in {} |-> <<>>], VarX :> <<>>, VarX :> <<"v">>, VarX :> <<"v", "-", "w">> }

InterpInit ==
    /\ pc = "interpolate"
    /\ str \in References \cup EscapedTexts
    /\ env \in Environments
    /\ throwOnError \in BOOLEAN
    /\ result = "none"
    /\ compose = Undef
    /\ NoFiles /\ NoParse /\ NoHeap

\* interpolate(str, env, false, {throwOnError})
InterpolateString ==
    /\ pc = "interpolate"
    /\ result' = interpolateString(str, env, throwOnError)
    /\ pc' = "done"
    /\ UNCHANGED <<compose, includeVars, interpVars, env, heap, parseVars>>

InterpNext == InterpolateString

SpecInterp == InterpInit /\ [][InterpNext]_vars

----------------------------------------------------------------------------
(* Properties of the interpolation of one reference                         *)

XIsSet == VarX \in DOMAIN env
XIsEmpty == ~XIsSet \/ env[VarX] = <<>>
XValue == IF XIsSet THEN env[VarX] ELSE <<>>

\* C9 (as claimed): ${X:-d} yields X's value when X is set and non-empty and
\* d otherwise; ${X-d} yields X's value whenever X is set and d only when X
\* is absent; the default is the whole text d, for every text d.
C9_DefaultIsWholeText ==
    pc = "done" =>
        \A d \in Texts :
            /\ str = Reference(VarX, <<":", "-">>, d) =>
                  /\ result.kind = "ok"
                  /\ result.val = IF XIsEmpty THEN d ELSE XValue
            /\ str = Reference(VarX, <<"-">>, d) =>
                  /\ result.kind = "ok"
                  /\ result.val = IF XIsSet THEN XValue ELSE d

\* C10 (as claimed): ${X:?m} fails with message exactly m when X is unset or
\* empty and yields X's value otherwise; ${X?m} fails with message exactly m
\* when X is unset and yields X's value otherwise; for every message text m.
C10_RequiredFailsWithMessage ==
    (pc = "done" /\ throwOnError) =>
        \A m \in Texts \ {<<>>} :
            /\ str = Reference(VarX, <<":", "?">>, m) =>
                  IF XIsEmpty
                  THEN result.kind = "error" /\ result.msg = m
                  ELSE result.kind = "ok" /\ result.val = XValue
            /\ str = Reference(VarX, <<"?">>, m) =>
                  IF ~XIsSet
                  THEN result.kind = "error" /\ result.msg = m
                  ELSE result.kind = "ok" /\ result.val = XValue

\* the text a string stands for, read from the i-th character on: "$$" stands
\* for one "$", "${name}" for the value of name (nothing when name is not in
\* the environment), any other character for itself
RECURSIVE Collapsed(_, _, _)
Collapsed(s, i, environment) ==
    IF i > Len(s) THEN <<>>
    ELSE IF i < Len(s) /\ s[i] = "$" /\ s[i + 1] = "$"
    THEN <<"$">> \o Collapsed(s, i + 2, environment)
    ELSE IF /\ i + 3 <= Len(s)
            /\ s[i] = "$" /\ s[i + 1] = "{" /\ s[i + 2] # "}"
            /\ \E j \in (i + 3)..Len(s) : s[j] = "}"
    THEN LET j == CHOOSE k \in (i + 3)..Len(s) :
                      s[k] = "}" /\ \A l \in (i + 3)..(k - 1) : s[l] # "}"
             name == SubSeq(s, i + 2, j - 1)
         IN  (IF name \in DOMAIN environment THEN environment[name] ELSE <<>>)
             \o Collapsed(s, j + 1, environment)
    ELSE <<s[i]>> \o Collapsed(s, i + 1, environment)

EscapedReference == <<"$", "$", "{", "X", "}">>

\* C11: in the interpolation of a string of the characters "$", "{", "X", "}",
\* every "$$" of the source comes out as one "$" that is neither expanded nor
\* joined with the text after it into a reference, and the references outside
\* a "$$" are replaced by their values; "$${X}" comes out as "${X}" whatever
\* the environment holds for X.
C11_EscapedDollarCollapses ==
    (pc = "done" /\ str \in EscapedTexts) =>
        /\ result.kind = "ok"
        /\ result.val = Collapsed(str, 1, env)
        /\ str = EscapedReference => result.val = <<"$", "{", "X", "}">>

C11_Witness ==
    /\ pc = "done"
    /\ str = EscapedReference
    /\ XIsSet /\ XValue = <<"v">>
    /\ result.val = <<"$", "{", "X", "}">>

----------------------------------------------------------------------------
(* variableInterpolator.js: interpolate, extractVariables                   *)

RECURSIVE SeqOfSet(_)
SeqOfSet(S) ==
    IF S = {} THEN <<>>
    ELSE LET x == CHOOSE y \in S : TRUE IN <<x>> \o SeqOfSet(S \ {x})

\* Object.entries order: the keys of NameOrder first, the others in one
\* fixed order
EntriesOrder(o) == KeyOrder(o) \o SeqOfSet((DOMAIN o.v) \ Range(NameOrder))

\* lines 223-233: the leaf that replaces an interpolated string
InterpolatedLeaf(value, r, addMetadata) ==
    IF addMetadata /\ r.hasVariable
    THEN Obj(("_value" :> Tmpl(r.val)) @@ ("_original" :> value)
             @@ ("_hasVariable" :> True)
             @@ ("_variables" :> Arr([i \in DOMAIN r.variables |->
                                        Tmpl(r.variables[i])])))
    ELSE Tmpl(r.val)

\* interpolate(value, env, addMetadata, {throwOnError: false, onError}):
\* the value it returns
RECURSIVE interpolate(_, _, _)
interpolate(value, environment, addMetadata) ==
    CASE value.t = "tmpl" ->
           InterpolatedLeaf(value, interpolateString(value.v, environment, FALSE),
                            addMetadata)
      [] value.t = "arr" ->
           Arr([i \in DOMAIN value.v |->
                  interpolate(value.v[i], environment, addMetadata)])
      [] value.t = "obj" ->
           Obj([k \in DOMAIN value.v |->
                  interpolate(value.v[k], environment, addMetadata)])
      [] OTHER -> value

\* the calls of onError that interpolate makes, in the order of the walk
RECURSIVE Reported(_, _)
RECURSIVE ReportedFrom(_, _, _)
ReportedFrom(values, i, environment) ==
    IF i > Len(values) THEN <<>>
    ELSE Reported(values[i], environment) \o ReportedFrom(values, i + 1, environment)

Reported(value, environment) ==
    CASE value.t = "tmpl" -> interpolateString(value.v, environment, FALSE).reported
      [] value.t = "arr" -> ReportedFrom(value.v, 1, environment)
      [] value.t = "obj" ->
           LET keys == EntriesOrder(value)
           IN  ReportedFrom([i \in DOMAIN keys |-> value.v[keys[i]]], 1, environment)
      [] OTHER -> <<>>

\* value.matchAll(VARIABLE_REGEX): the names of the references of a string
RECURSIVE NamesFrom(_, _)
NamesFrom(s, i) ==
    IF i > Len(s) THEN {}
    ELSE LET j == MatchEnd(s, i)
         IN  IF j = 0 THEN NamesFrom(s, i + 1)
             ELSE {VarNameOf(SubSeq(s, i + 2, j - 1))} \cup NamesFrom(s, j + 1)

RECURSIVE extractVariables(_)
extractVariables(value) ==
    CASE value.t = "tmpl" -> NamesFrom(value.v, 1)
      [] value.t = "arr" -> UNION {extractVariables(value.v[i]) : i \in DOMAIN value.v}
      [] value.t = "obj" -> UNION {extractVariables(value.v[k]) : k \in DOMAIN value.v}
      [] OTHER -> {}

getUndefinedVariables(c, environment) ==
    {varName \in extractVariables(c) : varName \notin DOMAIN environment}

----------------------------------------------------------------------------
(* The trees extractVariables and getUndefinedVariables are applied to      *)

\* the reference ${X}
PlainReference == <<"$", "{">> \o VarX \o <<"}">>

\* a string, a list and a nested mapping that hold the string s
ExtractTrees(s) ==
    { Tmpl(s), Arr(<<Str("img"), Tmpl(s)>>),
      Obj("web" :> Obj(("image" :> Str("img")) @@ ("command" :> Tmpl(s)))) }

ExtractInit ==
    /\ pc = "extract"
    /\ compose \in UNION {ExtractTrees(s) : s \in References \cup {PlainReference}}
    /\ env \in Environments
    /\ result = "none"
    /\ NoFiles /\ NoString /\ NoParse /\ NoHeap

\* extractVariables(compose)
ExtractVariables ==
    /\ pc = "extract"
    /\ result' = [op |-> "extractVariables", names |-> extractVariables(compose)]
    /\ pc' = "done"
    /\ UNCHANGED <<compose, includeVars, interpVars, env, heap, parseVars>>

\* getUndefinedVariables(compose, env)
GetUndefinedVariables ==
    /\ pc = "extract"
    /\ result' = [op |-> "getUndefinedVariables",
                  names |-> getUndefinedVariables(compose, env)]
    /\ pc' = "done"
    /\ UNCHANGED <<compose, includeVars, interpVars, env, heap, parseVars>>

ExtractNext == ExtractVariables \/ GetUndefinedVariables

SpecExtract == ExtractInit /\ [][ExtractNext]_vars

\* C12 (as claimed): for a tree that holds one reference to X, in any of the
\* forms ${X}, ${X:-d}, ${X-d}, ${X:?m}, ${X?m}, extractVariables returns the
\* set of the one name X, and getUndefinedVariables returns X when X is absent
\* from the environment and nothing when X is present.
C12_BaseNamesExtracted ==
    pc = "done" =>
        /\ result.op = "extractVariables" => result.names = {VarX}
        /\ result.op = "getUndefinedVariables" =>
               result.names = IF XIsSet THEN {} ELSE {VarX}

----------------------------------------------------------------------------
(* profileFilter.js                                                         *)

getServiceProfiles(service) ==
    IF ~Truthy(service) \/ ~Truthy(Get(service, "profiles")) THEN <<>>
    ELSE LET profiles == Get(service, "profiles")
         IN  IF IsString(profiles) THEN <<profiles>>
             ELSE IF profiles.t = "arr"
             THEN SelectSeq(profiles.v, LAMBDA x : IsString(x))
             ELSE <<>>

\* Object.values(compose.services)
ServiceValues(c) == Props(Get(c, "services"))

\* the mutant: the profiles of the services the active profiles keep
listAllProfilesFiltered(c) ==
    IF ~Truthy(c) \/ ~Truthy(Get(c, "services")) THEN {}
    ELSE UNION {Range(getServiceProfiles(ServiceValues(c)[n])) :
                   n \in {m \in DOMAIN ServiceValues(c) :
                             \E p \in Range(getServiceProfiles(ServiceValues(c)[m])) :
                                 p \in Range(options.activeProfiles)}}

listAllProfiles(c) ==
    IF ~Truthy(c) \/ ~Truthy(Get(c, "services")) THEN {}
    ELSE UNION {Range(getServiceProfiles(ServiceValues(c)[n])) :
                   n \in DOMAIN ServiceValues(c)}

RECURSIVE SumOver(_, _)
SumOver(S, f) ==
    IF S = {} THEN 0
    ELSE LET x == CHOOSE y \in S : TRUE IN f[x] + SumOver(S \ {x}, f)

getProfileCounts(c) ==
    [profile \in listAllProfiles(c) |->
        LET services == ServiceValues(c)
            times == [n \in DOMAIN services |->
                        Cardinality({i \in DOMAIN getServiceProfiles(services[n]) :
                                        getServiceProfiles(services[n])[i] = profile})]
        IN  SumOver(DOMAIN services, times)]

\* the mutant: every profile of the service has to be active
matchesProfilesEvery(service, activeProfiles) ==
    LET serviceProfiles == getServiceProfiles(service)
    IN  IF Len(serviceProfiles) = 0 THEN TRUE
        ELSE \A i \in DOMAIN serviceProfiles :
                 serviceProfiles[i] \in Range(activeProfiles)

matchesProfiles(service, activeProfiles) ==
    LET serviceProfiles == getServiceProfiles(service)
    IN  IF Len(serviceProfiles) = 0 THEN TRUE
        ELSE \E i \in DOMAIN serviceProfiles :
                 serviceProfiles[i] \in Range(activeProfiles)

filterByProfiles(c, activeProfiles) ==
    IF ~Truthy(c) THEN c
    ELSE IF ~Truthy(Get(c, "services")) THEN c
    ELSE LET services == ServiceValues(c)
         IN  Assign(c, "services",
                    Obj([n \in {m \in DOMAIN services :
                                   matchesProfiles(services[m], activeProfiles)} |->
                           services[n]]))

----------------------------------------------------------------------------
(* The documents and active profiles filterByProfiles is applied to         *)

Test == Str("test")
Prod == Str("prod")

ProfiledServices ==
    { Null,
      Obj("image" :> Str("img")),
      Obj(("image" :> Str("img")) @@ ("profiles" :> Arr(<<>>))),
      Obj(("image" :> Str("img")) @@ ("profiles" :> Null)),
      Obj("profiles" :> Str("dev")),
      Obj(("image" :> Str("img")) @@ ("profiles" :> Arr(<<Str("dev"), Test>>))),
      Obj("profiles" :> Arr(<<Prod>>)) }

ProfiledDocuments ==
    { Null, Obj("networks" :> Obj("net" :> Obj(EmptyFn))), Obj("services" :> Null) }
    \cup { Obj(top @@ ("services" :> Obj(("a" :> a) @@ ("b" :> b)))) :
              a \in ProfiledServices, b \in ProfiledServices,
              top \in { EmptyFn,
                        ("networks" :> Obj("net" :> Obj(EmptyFn)))
                        @@ ("name" :> Str("x")) } }

\* the activeProfiles argument: absent, null, or a list
ActiveProfiles ==
    { Undef, Null, Arr(<<>>), Arr(<<Str("dev")>>), Arr(<<Test>>),
      Arr(<<Prod, Str("dev")>>) }

\* the default [] of an absent activeProfiles (line 103); a null one matches
\* nothing (line 93), as the empty list
ActiveList(activeProfiles) ==
    IF activeProfiles.t = "arr" THEN activeProfiles.v ELSE <<>>

ProfilesInit ==
    /\ pc = "filter"
    /\ compose \in ProfiledDocuments
    /\ options \in [activeProfiles : ActiveProfiles]
    /\ result = "none"
    /\ env = <<>>
    /\ yamlString = "none" /\ errors = <<>> /\ meta = "none"
    /\ NoFiles /\ NoString /\ NoHeap

\* filterByProfiles(compose, activeProfiles)
FilterByProfiles ==
    /\ pc = "filter"
    /\ result' = filterByProfiles(compose, ActiveList(options.activeProfiles))
    /\ pc' = "done"
    /\ UNCHANGED <<compose, includeVars, interpVars, env, heap, parseVars>>

ProfilesNext == FilterByProfiles

SpecProfiles == ProfilesInit /\ [][ProfilesNext]_vars

\* the profiles a service declares: the entries of its profiles list, or its
\* one profile; none when the field is absent, null or the empty list
DeclaredProfiles(service) ==
    LET profiles == Get(service, "profiles")
    IN  IF profiles.t = "arr" THEN Range(profiles.v)
        ELSE IF profiles.t = "str" THEN {profiles}
        ELSE {}

\* the active profiles as a set: none when the argument is absent or null
ActiveSet ==
    IF options.activeProfiles.t = "arr" THEN Range(options.activeProfiles.v) ELSE {}

\* C14: filterByProfiles keeps exactly the services that declare no profile
\* or declare a profile that is active, so with no active profile exactly the
\* services without profiles; a kept service is the input's service, and
\* every top-level key other than services is in the result with its input
\* value; a document without services is returned as it is.
C14_FilterKeepsMatchingServices ==
    pc = "done" =>
        IF ~Truthy(compose) \/ ~Truthy(Get(compose, "services"))
        THEN result = compose
        ELSE LET services == ServiceValues(compose)
                 kept == ServiceValues(result)
             IN  /\ DOMAIN kept =
                        {n \in DOMAIN services :
                            \/ DeclaredProfiles(services[n]) = {}
                            \/ DeclaredProfiles(services[n]) \cap ActiveSet # {}}
                 /\ \A n \in DOMAIN kept : kept[n] = services[n]
                 /\ ActiveSet = {} =>
                        DOMAIN kept = {n \in DOMAIN services :
                                         DeclaredProfiles(services[n]) = {}}
                 /\ DOMAIN result.v = DOMAIN compose.v
                 /\ \A k \in (DOMAIN compose.v) \ {"services"} :
                        result.v[k] = compose.v[k]

\* with dev active, a (profiles dev and test) is kept unchanged, b (profile
\* prod) is removed, and the networks pass through
C14_Witness ==
    /\ pc = "done"
    /\ options.activeProfiles = Arr(<<Str("dev")>>)
    /\ Get(Get(Get(compose, "services"), "a"), "profiles") = Arr(<<Str("dev"), Test>>)
    /\ Get(Get(Get(compose, "services"), "b"), "profiles") = Arr(<<Prod>>)
    /\ DOMAIN ServiceValues(result) = {"a"}
    /\ Get(result, "networks") = Obj("net" :> Obj(EmptyFn))

----------------------------------------------------------------------------
(* composeParser.js: parseCompose                                           *)

\* an entry of the errors array; the message is held as the kind of the
\* error and what the message names
Diagnostic(type, stage, kind, names, svc) ==
    [type |-> type, stage |-> stage,
     message |-> [kind |-> kind, chain |-> names, svc |-> svc]]

\* line 53: yaml.load(yamlString)
YamlLoad(y) ==
    IF y.text = "bad" THEN Raise("parse", <<>>)
    ELSE IF y.text = "empty" THEN Ok(Undef)
    ELSE Ok(y.yaml)

\* lines 154-168
FatalResult(kind) ==
    [compose |-> Null, profiles |-> {}, profileCounts |-> EmptyFn,
     variables |-> {}, undefinedVariables |-> {},
     errors |-> <<Diagnostic("fatal", "yaml-parsing", kind, <<>>, "")>>]

\* the mutant: a failed stage leaves an empty document
StageOutcomeDropped(doc, errs, r, type, stage) ==
    IF r.kind = "ok" THEN [compose |-> r.val, errors |-> errs]
    ELSE [compose |-> Obj(EmptyFn),
          errors |-> Append(errs, Diagnostic(type, stage, r.kind, r.chain, r.svc))]

\* lines 61-70 and 75-84: compose = stage(compose) inside try/catch
StageOutcome(doc, errs, r, type, stage) ==
    IF r.kind = "ok" THEN [compose |-> r.val, errors |-> errs]
    ELSE [compose |-> doc,
          errors |-> Append(errs, Diagnostic(type, stage, r.kind, r.chain, r.svc))]

\* the literal pieces of the messages of lines 110-117, each held whole
InterpolationError == <<"Variable interpolation error">>
MissingRequired == <<"Missing required variable: ">>
Required == <<"r", "e", "q", "u", "i", "r", "e", "d">>
ErrorWord == <<"e", "r", "r", "o", "r">>

\* lines 110-119: the message of one call of onError
VariableMessage(rep) ==
    LET rawMessage == IF rep.msg = <<>> THEN InterpolationError ELSE rep.msg
        varName == rep.varName
    IN  IF varName = <<>> THEN rawMessage
        ELSE IF rawMessage = Required \/ rawMessage = ErrorWord
        THEN MissingRequired \o varName
        ELSE IF ~Includes(rawMessage, varName)
        THEN rawMessage \o <<" (">> \o varName \o <<")">>
        ELSE rawMessage

\* the mutant: every call of onError adds a diagnostic
OnErrorFromEvery(reports, i, keys, errs) ==
    errs \o [j \in DOMAIN reports |->
               Diagnostic("variable", "variable-interpolation", "variable",
                          VariableMessage(reports[j]), "")]

\* lines 120-127: the calls of onError from the i-th on; keys is the set
\* interpolationErrors
RECURSIVE OnErrorFrom(_, _, _, _)
OnErrorFrom(reports, i, keys, errs) ==
    IF i > Len(reports) THEN errs
    ELSE LET message == VariableMessage(reports[i])
             key == message \o <<":">> \o reports[i].varName
         IN  IF key \in keys THEN OnErrorFrom(reports, i + 1, keys, errs)
             ELSE OnErrorFrom(reports, i + 1, keys \cup {key},
                      Append(errs, Diagnostic("variable", "variable-interpolation",
                                              "variable", message, "")))

----------------------------------------------------------------------------
(* The texts and options parseCompose is applied to                         *)

PipelineBase == Obj(("image" :> Str("img")) @@ ("ports" :> Arr(<<Str("80")>>)))

Dev == Str("dev")

PipelineWebs ==
    { Obj(("extends" :> Str("base")) @@ ("ports" :> Arr(<<Str("81")>>))
          @@ ("profiles" :> Arr(<<Dev>>))),
      Obj(("extends" :> Str("zz"))
          @@ ("image" :> Tmpl(Reference(VarX, <<":", "-">>, <<"d">>)))),
      Obj("extends" :> Str("web")),
      Obj(("image" :> Tmpl(Reference(VarX, <<":", "?">>, <<"d", "d">>)))
          @@ ("command" :> Tmpl(Reference(VarX, <<":", "?">>, <<"d", "d">>)))
          @@ ("profiles" :> Dev)),
      Obj(("extends" :> Obj("service" :> Str("base")))
          @@ ("command" :> Tmpl(Reference(VarX, <<"?">>, Required)))) }

PipelineIncludes ==
    { Arr(<<Path(<<".", "b.yml">>)>>), Path(<<"sub", "..", "a.yml">>), Null }

PipelineDocuments ==
    LET bodies == { "services" :> Obj(("base" :> PipelineBase) @@ ("web" :> w)) :
                       w \in PipelineWebs }
    IN  {Obj(b) : b \in bodies}
        \cup {Obj(("include" :> i) @@ b) : i \in PipelineIncludes, b \in bodies}

YamlStrings ==
    { BadText, EmptyText, Yaml(Null), Yaml(Str("")), Yaml(Str("x")),
      Yaml(Arr(<<Str("x")>>)) }
    \cup {Yaml(d) : d \in PipelineDocuments}

PipelineOptions ==
    [activeProfiles : {<<>>, <<Dev>>},
     enableIncludes : BOOLEAN, enableExtends : BOOLEAN,
     enableVariables : BOOLEAN, enableProfiles : BOOLEAN,
     addMetadata : BOOLEAN]

PipelineFileMaps == { EmptyFn, PathB :> Yaml(Obj(BodyB)), PathB :> BadText }

ParseInit ==
    /\ pc = "p_parse"
    /\ yamlString \in YamlStrings
    /\ options \in PipelineOptions
    /\ env \in {[n \in {} |-> <<>>], VarX :> <<>>, VarX :> <<"v">>}
    /\ basePath = PathA
    /\ fileMap \in PipelineFileMaps
    /\ errors = <<>>
    /\ meta = "none"
    /\ compose = Undef
    /\ result = "none"
    /\ NoString /\ NoHeap

\* lines 53-57 and the catch of lines 154-168
ParseYaml ==
    /\ pc = "p_parse"
    /\ LET loaded == YamlLoad(yamlString)
       IN  IF loaded.kind # "ok"
           THEN /\ result' = FatalResult("syntax")
                /\ pc' = "returned"
                /\ UNCHANGED compose
           ELSE IF ~Truthy(loaded.val) \/ ~IsObjectLike(loaded.val)
           THEN /\ result' = FatalResult("root")
                /\ pc' = "returned"
                /\ UNCHANGED compose
           ELSE /\ compose' = loaded.val
                /\ pc' = "p_include"
                /\ UNCHANGED result
    /\ UNCHANGED <<includeVars, interpVars, env, heap, parseVars>>

\* lines 60-71
StageIncludes ==
    /\ pc = "p_include"
    /\ LET out == IF options.enableIncludes
                  THEN StageOutcome(compose, errors,
                                    resolveIncludes(compose, basePath, fileMap, <<>>),
                                    "include", "include-resolution")
                  ELSE [compose |-> compose, errors |-> errors]
       IN  compose' = out.compose /\ errors' = out.errors
    /\ pc' = "p_extends"
    /\ UNCHANGED <<result, includeVars, interpVars, env, heap, yamlString, options, meta>>

\* lines 74-85
StageExtends ==
    /\ pc = "p_extends"
    /\ LET out == IF options.enableExtends
                  THEN StageOutcome(compose, errors, resolveAllExtends(compose),
                                    "extends", "extends-resolution")
                  ELSE [compose |-> compose, errors |-> errors]
       IN  compose' = out.compose /\ errors' = out.errors
    /\ pc' = "p_meta"
    /\ UNCHANGED <<result, includeVars, interpVars, env, heap, yamlString, options, meta>>

\* lines 88-101
StageMetadata ==
    /\ pc = "p_meta"
    /\ LET undefinedVars == IF options.enableVariables
                            THEN getUndefinedVariables(compose, env) ELSE {}
       IN  /\ meta' = [profiles |-> listAllProfiles(compose),
                       profileCounts |-> getProfileCounts(compose),
                       variables |-> IF options.enableVariables
                                     THEN extractVariables(compose) ELSE {},
                       undefinedVariables |-> undefinedVars]
           /\ errors' = IF undefinedVars # {}
                        THEN Append(errors,
                                    Diagnostic("warning", "variable-validation",
                                               "undefined", SeqOfSet(undefinedVars), ""))
                        ELSE errors
    /\ pc' = "p_vars"
    /\ UNCHANGED <<compose, result, includeVars, interpVars, env, heap, yamlString, options>>

\* lines 104-138
StageVariables ==
    /\ pc = "p_vars"
    /\ IF options.enableVariables
       THEN /\ compose' = interpolate(compose, env, options.addMetadata)
            /\ errors' = OnErrorFrom(Reported(compose, env), 1, {}, errors)
       ELSE UNCHANGED <<compose, errors>>
    /\ pc' = "p_profiles"
    /\ UNCHANGED <<result, includeVars, interpVars, env, heap, yamlString, options, meta>>

\* lines 141-152
StageProfiles ==
    /\ pc = "p_profiles"
    /\ LET filtered == IF options.enableProfiles
                       THEN filterByProfiles(compose, options.activeProfiles)
                       ELSE compose
       IN  /\ compose' = filtered
           /\ result' = [compose |-> filtered, profiles |-> meta.profiles,
                         profileCounts |-> meta.profileCounts,
                         variables |-> meta.variables,
                         undefinedVariables |-> meta.undefinedVariables,
                         errors |-> errors]
    /\ pc' = "returned"
    /\ UNCHANGED <<includeVars, interpVars, env, heap, parseVars>>

ParseNext ==
    \/ ParseYaml
    \/ StageIncludes
    \/ StageExtends
    \/ StageMetadata
    \/ StageVariables
    \/ StageProfiles

SpecParse == ParseInit /\ [][ParseNext]_vars

----------------------------------------------------------------------------
(* parseCompose: the properties                                             *)

ParseReturned == pc = "returned"

\* the text cannot be parsed, or its root is not a mapping
ParseFails == yamlString.text # "yaml" \/ yamlString.yaml.t # "obj"

FatalAt(i) == result.errors[i].type = "fatal"

\* the number of diagnostics of a type in the result
DiagnosticsOf(type) ==
    Cardinality({i \in DOMAIN result.errors : result.errors[i].type = type})

\* C1 (as claimed): the document parseCompose returns is null exactly when the
\* text cannot be parsed or its root is not a mapping; the diagnostics are then
\* one fatal entry, and no other run carries a fatal entry.
C1_NullDocumentIffParseFails ==
    ParseReturned =>
        /\ (result.compose.t = "null") <=> ParseFails
        /\ ParseFails => Len(result.errors) = 1 /\ FatalAt(1)
        /\ ~ParseFails => \A i \in DOMAIN result.errors : ~FatalAt(i)

\* stages 4 and 5 of parseCompose applied to a document
LaterStages(d) ==
    LET interpolated == IF options.enableVariables
                        THEN interpolate(d, env, options.addMetadata) ELSE d
    IN  IF options.enableProfiles
        THEN filterByProfiles(interpolated, options.activeProfiles)
        ELSE interpolated

ResultServices == Props(Get(result.compose, "services"))

\* C2: in a run of parseCompose that passes the raw parse, a failing include
\* stage (resp. extends stage) adds exactly one diagnostic of type include
\* (resp. extends) and a succeeding one adds none; the stage after a failed
\* stage receives the document the failed stage received, so that the include
\* key (resp. the extends field of every service that had one) is still in the
\* returned document; and the returned document and metadata are those of the
\* later stages applied to that document.
C2_FailedStageKeepsDocument ==
    (ParseReturned /\ result.compose.t # "null") =>
        LET root == yamlString.yaml
            included == resolveIncludes(root, basePath, fileMap, <<>>)
            includeFailed == options.enableIncludes /\ included.kind # "ok"
            afterIncludes == IF options.enableIncludes /\ included.kind = "ok"
                             THEN included.val ELSE root
            extended == resolveAllExtends(afterIncludes)
            extendsFailed == options.enableExtends /\ extended.kind # "ok"
            afterExtends == IF options.enableExtends /\ extended.kind = "ok"
                            THEN extended.val ELSE afterIncludes
        IN  /\ DiagnosticsOf("include") = IF includeFailed THEN 1 ELSE 0
            /\ DiagnosticsOf("extends") = IF extendsFailed THEN 1 ELSE 0
            /\ includeFailed =>
                   /\ Has(result.compose, "include")
                   /\ Get(result.compose, "include") = Get(root, "include")
            /\ extendsFailed =>
                   \A n \in DOMAIN ResultServices :
                       /\ Has(ResultServices[n], "extends")
                            <=> Has(Props(Get(afterIncludes, "services"))[n], "extends")
                       /\ Get(ResultServices[n], "extends")
                            = Get(Props(Get(afterIncludes, "services"))[n], "extends")
            /\ result.compose = LaterStages(afterExtends)
            /\ result.profiles = listAllProfiles(afterExtends)
            /\ result.variables = IF options.enableVariables
                                  THEN extractVariables(afterExtends) ELSE {}

\* the include stage failed on a circular include, the include key is still
\* in the returned document, and the extends stage still merged base into web
C2_Witness ==
    /\ ParseReturned
    /\ Len(result.errors) = 1
    /\ result.errors[1].type = "include"
    /\ result.errors[1].message.kind = "circular"
    /\ Has(result.compose, "include")
    /\ "web" \in DOMAIN ResultServices
    /\ ~Has(ResultServices["web"], "extends")
    /\ Get(ResultServices["web"], "ports") = Arr(<<Str("80"), Str("81")>>)

\* the document parseCompose holds after the include and extends stages
ResolvedDocument ==
    LET included == resolveIncludes(yamlString.yaml, basePath, fileMap, <<>>)
        afterIncludes == IF options.enableIncludes /\ included.kind = "ok"
                         THEN included.val ELSE yamlString.yaml
        extended == resolveAllExtends(afterIncludes)
    IN  IF options.enableExtends /\ extended.kind = "ok"
        THEN extended.val ELSE afterIncludes

\* the services of the resolved document that the returned document lacks
RemovedServices ==
    {n \in DOMAIN ServiceValues(ResolvedDocument) : n \notin DOMAIN ResultServices}

----------------------------------------------------------------------------
(* comparison.js: extractHostPort. A port mapping is a Tmpl whose elements  *)
(* are the characters "[", "]", ":", "/", "." and, each held whole, the     *)
(* runs of other characters between them ("8080", "8000-9000", "tcp").      *)

Colon == <<":">>

\* line 53: '0.0.0.0'
AllInterfaces == <<"0", ".", "0", ".", "0", ".", "0">>

\* s.split(':').length
PartCount(s) == Cardinality({i \in DOMAIN s : s[i] = ":"}) + 1

\* s.split(sep)[0]
FirstPart(s, sep) == IF Includes(s, sep) THEN SplitFirst(s, sep) ELSE s

\* the mutant: the protocol suffix stays in the key
StripProtocolKept(hostPort) == hostPort

\* line 79: hostPort.split('/')[0]
StripProtocol(hostPort) == FirstPart(hostPort, <<"/">>)

\* the mutant: the bind address is left out of the key
HostBindingAnyAddress(ip, hostPort) ==
    IF hostPort = <<>> THEN Null
    ELSE Tmpl(AllInterfaces \o Colon \o StripProtocol(hostPort))

\* lines 76-82
HostBinding(ip, hostPort) ==
    IF hostPort = <<>> THEN Null
    ELSE Tmpl(ip \o Colon \o StripProtocol(hostPort))

\* lines 28-46: a mapping that starts with "["
BracketedBinding(s) ==
    IF \A i \in DOMAIN s : s[i] # "]" THEN Null
    ELSE LET closeBracket == CHOOSE i \in DOMAIN s :
                                 s[i] = "]" /\ \A k \in 1..(i - 1) : s[k] # "]"
             ip == SubSeq(s, 1, closeBracket)
             remaining == SubSeq(s, closeBracket + 1, Len(s))
         IN  IF remaining # <<>> /\ remaining[1] = ":"
             THEN HostBinding(ip, FirstPart(SubSeq(remaining, 2, Len(remaining)),
                                            Colon))
             ELSE Null

extractHostPort(portMapping) ==
    IF portMapping.t # "tmpl" \/ portMapping.v = <<>> THEN Null
    ELSE LET s == portMapping.v
         IN  IF s[1] = "[" THEN BracketedBinding(s)
             ELSE IF PartCount(s) = 2
             THEN HostBinding(AllInterfaces, SplitFirst(s, Colon))
             ELSE IF PartCount(s) = 3
             THEN IF SplitFirst(s, Colon) = <<>> /\ SplitSecond(s, Colon) = <<>>
                  THEN Null
                  ELSE HostBinding(SplitFirst(s, Colon), SplitSecond(s, Colon))
             ELSE Null

----------------------------------------------------------------------------
(* The port mappings extractHostPort is applied to                          *)

MaxFields == 2

HostPorts == { <<"8080">>, <<"8000-9000">> }
ContainerPorts == { <<"80">>, <<"80", "/", "tcp">>, <<"80", "/", "UDP">> }
ProtocolSuffixes == { <<>>, <<"/", "tcp">>, <<"/", "UDP">> }
IPv4Addresses == { <<"127", ".", "0", ".", "0", ".", "1">> }
BracketedAddresses ==
    { <<"[", ":", ":", "1", "]">>, <<"[", "2001", ":", "db8", ":", ":", "1", "]">> }
UnbracketedAddresses == { <<":", ":", "1">>, <<"2001", ":", "db8", ":", ":", "1">> }
UnclosedAddresses == { <<"[", ":", ":", "1">> }

PortFields ==
    {<<>>} \cup HostPorts \cup ContainerPorts
    \cup {h \o x : h \in HostPorts, x \in ProtocolSuffixes}

\* the texts made of n fields, each preceded by ":"
RECURSIVE FieldLists(_)
FieldLists(n) ==
    IF n = 0 THEN {<<>>}
    ELSE {l \o Colon \o f : l \in FieldLists(n - 1), f \in PortFields}

PortTexts ==
    LET addresses == {<<>>} \cup IPv4Addresses \cup BracketedAddresses
                     \cup UnbracketedAddresses \cup UnclosedAddresses
        tails == UNION {FieldLists(n) : n \in 0..MaxFields}
    IN  {a \o t : a \in addresses, t \in tails}
        \cup {f \o t : f \in PortFields, t \in tails}

PortMappings ==
    {Tmpl(t) : t \in PortTexts}
    \cup { Null, Undef, Arr(<<>>), Obj(EmptyFn), True }

HostPortInit ==
    /\ pc = "hostport"
    /\ compose \in PortMappings
    /\ result = "none"
    /\ env = <<>>
    /\ NoFiles /\ NoString /\ NoParse /\ NoHeap

\* extractHostPort(portMapping)
ExtractHostPort ==
    /\ pc = "hostport"
    /\ result' = extractHostPort(compose)
    /\ pc' = "done"
    /\ UNCHANGED <<compose, includeVars, interpVars, env, heap, parseVars>>

HostPortNext == ExtractHostPort

SpecHostPort == HostPortInit /\ [][HostPortNext]_vars

----------------------------------------------------------------------------
(* comparison.js: compareProjects. A project is the object {id, name,       *)
(* content}; the list of projects is an Arr.                                *)

\* validation.js: normalizeArray
normalizeArray(arr) == IF Truthy(arr) /\ arr.t = "arr" THEN arr.v ELSE <<>>

\* lines 90-94
extractVolumeSource(volumeMapping) ==
    IF volumeMapping.t # "tmpl" \/ volumeMapping.v = <<>> THEN Null
    ELSE IF FirstPart(volumeMapping.v, Colon) = <<>> THEN Null
    ELSE Tmpl(FirstPart(volumeMapping.v, Colon))

\* an entry of the list a map holds for a key
Usage(key, project, service, mapping) ==
    [key |-> key, project |-> project, service |-> service, mapping |-> mapping]

RECURSIVE ConcatAll(_, _)
ConcatAll(seqs, i) ==
    IF i > Len(seqs) THEN <<>> ELSE seqs[i] \o ConcatAll(seqs, i + 1)

\* the values of a list in the order of their first occurrence
RECURSIVE DistinctFrom(_, _, _)
DistinctFrom(values, i, seen) ==
    IF i > Len(values) THEN seen
    ELSE DistinctFrom(values, i + 1,
                      IF values[i] \in Range(seen) THEN seen
                      ELSE Append(seen, values[i]))

\* [...new Set(values)]
Distinct(values) == DistinctFrom(values, 1, <<>>)

\* the entries made for the mappings whose key is truthy
KeyedUsages(mappings, KeyOf(_), project, service) ==
    SelectSeq([i \in DOMAIN mappings |->
                  Usage(KeyOf(mappings[i]), project, service, mappings[i])],
              LAMBDA u : Truthy(u.key))

\* lines 119-151: what one service adds to the map of a category
ServiceUsages(category, project, serviceName, service) ==
    CASE category = "service_name" ->
           <<Usage(Str(serviceName), project, serviceName, Undef)>>
      [] category = "container_name" ->
           IF Truthy(Get(service, "container_name"))
           THEN <<Usage(Get(service, "container_name"), project, serviceName, Undef)>>
           ELSE <<>>
      [] category = "port" ->
           KeyedUsages(normalizeArray(Get(service, "ports")), extractHostPort,
                       project, serviceName)
      [] category = "volume" ->
           KeyedUsages(normalizeArray(Get(service, "volumes")), extractVolumeSource,
                       project, serviceName)
      [] category = "env_file" ->
           LET files == normalizeArray(Get(service, "env_file"))
           IN  [i \in DOMAIN files |-> Usage(files[i], project, serviceName, Undef)]
      [] OTHER -> <<>>

\* Object.entries(x || {}) / Object.keys(x || {}): the keys
KeysOrder(x) == IF x.t = "obj" THEN EntriesOrder(x) ELSE <<>>

\* lines 113-158: what one project adds to the map of a category
ProjectUsages(category, project) ==
    LET content == Get(project, "content")
        projectName == Get(project, "name")
    IN  IF ~Truthy(content) THEN <<>>
        ELSE IF category = "network"
        THEN LET names == KeysOrder(Get(content, "networks"))
             IN  [i \in DOMAIN names |-> Usage(Str(names[i]), projectName, "", Undef)]
        ELSE LET services == Get(content, "services")
                 names == KeysOrder(services)
             IN  ConcatAll([i \in DOMAIN names |->
                               ServiceUsages(category, projectName, names[i],
                                             services.v[names[i]])], 1)

AllUsages(category, projects) ==
    ConcatAll([i \in DOMAIN projects |-> ProjectUsages(category, projects[i])], 1)

Finding(type, category, severity, key, projects, details) ==
    [type |-> type, category |-> category, severity |-> severity, key |-> key,
     projects |-> projects, details |-> details]

\* lines 162-258: the findings of one key of a category
KeyFindings(category, key, usages) ==
    LET projectsList == [i \in DOMAIN usages |-> usages[i].project]
        projectsInvolved == Distinct(projectsList)
        isHostPath == key.v[1] \in {".", "/"}
    IN  IF Len(usages) <= 1 THEN <<>>
        ELSE IF category \in {"network", "service_name"}
        THEN <<Finding("shared", category, "info", key, projectsList, <<>>)>>
        ELSE IF Len(projectsInvolved) <= 1 THEN <<>>
        ELSE IF category \in {"port", "container_name"}
        THEN <<Finding("conflict", category, "error", key, projectsInvolved, usages)>>
        ELSE IF category = "volume"
        THEN <<Finding(IF isHostPath THEN "conflict" ELSE "shared", category,
                       IF isHostPath THEN "warning" ELSE "info", key,
                       projectsInvolved, usages)>>
        ELSE <<Finding("shared", category, "info", key, projectsInvolved, usages)>>

\* the order in which the categories are reported
Categories ==
    <<"port", "container_name", "volume", "network", "env_file", "service_name">>

CategoryFindings(category, projects) ==
    LET usages == AllUsages(category, projects)
        keys == Distinct([i \in DOMAIN usages |-> usages[i].key])
    IN  ConcatAll([k \in DOMAIN keys |->
                      KeyFindings(category, keys[k],
                                  SelectSeq(usages, LAMBDA u : u.key = keys[k]))], 1)

\* line 114 on a project that is null; line 124 on a service that is null
RaisesTypeError(projects) ==
    \E i \in DOMAIN projects :
        \/ projects[i].t \in {"null", "undef"}
        \/ /\ Truthy(Get(projects[i], "content"))
           /\ \E n \in DOMAIN Props(Get(Get(projects[i], "content"), "services")) :
                  Props(Get(Get(projects[i], "content"), "services"))[n].t
                      \in {"null", "undef"}

compareProjects(projects) ==
    IF ~Truthy(projects) \/ Len(projects.v) < 2 THEN Ok(<<>>)
    ELSE IF RaisesTypeError(projects.v) THEN Raise("TypeError", <<>>)
    ELSE Ok(ConcatAll([c \in DOMAIN Categories |->
                          CategoryFindings(Categories[c], projects.v)], 1))

----------------------------------------------------------------------------
(* The projects compareProjects is applied to                               *)

MaxProjects == 2

P80 == Tmpl(<<"80", ":", "80">>)
P80Tcp == Tmpl(<<"80", ":", "80", "/", "tcp">>)
P80Udp == Tmpl(<<"80", ":", "80", "/", "udp">>)
PLocal80 == Tmpl(<<"127", ".", "0", ".", "0", ".", "1", ":", "80", ":", "80">>)
P81 == Tmpl(<<"81", ":", "80">>)
P443 == Tmpl(<<"443", ":", "443">>)
PBare == Tmpl(<<"80">>)

VolumeData == Tmpl(<<".", "/", "data", ":", "/", "d">>)
VolumeNamed == Tmpl(<<"vol", ":", "/", "v">>)

ComparedServices ==
    { Null,
      Obj("ports" :> Arr(<<P80>>)),
      Obj("ports" :> Arr(<<P80Tcp>>)),
      Obj("ports" :> Arr(<<PLocal80>>)),
      Obj("ports" :> Arr(<<P80Udp, P443>>)),
      Obj(("ports" :> Arr(<<P81, PBare>>)) @@ ("container_name" :> Str("c"))
          @@ ("volumes" :> Arr(<<VolumeData, VolumeNamed>>))
          @@ ("env_file" :> Arr(<<Str(".env")>>))),
      Obj(("ports" :> Arr(<<P443>>)) @@ ("container_name" :> Str("c"))
          @@ ("volumes" :> Arr(<<VolumeNamed>>))
          @@ ("env_file" :> Arr(<<Str(".env")>>))) }

ComparedContents ==
    { Null, Obj("networks" :> Obj("net" :> Obj(EmptyFn))) }
    \cup {Obj("services" :> Obj("a" :> x)) : x \in ComparedServices}
    \cup {Obj("services" :> Obj(("a" :> x) @@ ("b" :> x))) :
              x \in ComparedServices \ {Null}}
    \cup {Obj(("services" :> Obj("web" :> Obj("ports" :> Arr(<<P80>>))))
              @@ ("networks" :> Obj("net" :> Obj(EmptyFn))))}

Project(id, name, content) ==
    Obj(("id" :> Str(id)) @@ ("name" :> Str(name)) @@ ("content" :> content))

ProjectNames == {"p", "q"}

\* the lists of n projects; the project at position i has the identifier i
RECURSIVE ProjectLists(_)
ProjectLists(n) ==
    IF n = 0 THEN {<<>>}
    ELSE {Append(l, Project(ToString(n), name, content)) :
             l \in ProjectLists(n - 1), name \in ProjectNames,
             content \in ComparedContents}

CompareInit ==
    /\ pc = "compare"
    /\ compose \in {Arr(l) : l \in UNION {ProjectLists(n) : n \in 0..MaxProjects}}
    /\ result = "none"
    /\ env = <<>>
    /\ NoFiles /\ NoString /\ NoParse /\ NoHeap

\* compareProjects(projects)
CompareProjects ==
    /\ pc = "compare"
    /\ result' = compareProjects(compose)
    /\ pc' = "done"
    /\ UNCHANGED <<compose, includeVars, interpVars, env, heap, parseVars>>

CompareNext == CompareProjects

SpecCompare == CompareInit /\ [][CompareNext]_vars

----------------------------------------------------------------------------
(* compareProjects: the properties                                          *)

Compared == pc = "done" /\ result.kind = "ok"

\* the positions of the projects of the input list
ProjectIndexes == DOMAIN compose.v

DistinctNames ==
    \A i, j \in ProjectIndexes :
        Get(compose.v[i], "name") = Get(compose.v[j], "name") => i = j

\* the findings of a category for a key
FindingsFor(category, key) ==
    {i \in DOMAIN result.val :
        result.val[i].category = category /\ result.val[i].key = key}

\* the port mappings the services of the i-th project publish
PublishedBy(i) ==
    LET services == Props(Get(Get(compose.v[i], "content"), "services"))
    IN  UNION {Range(normalizeArray(Get(services[n], "ports"))) : n \in DOMAIN services}

Binding(address, hostPort) == Tmpl(address \o Colon \o hostPort)

Local == <<"127", ".", "0", ".", "0", ".", "1">>

\* the canonical key of each port mapping of the projects; none for PBare
CanonicalKey(port) ==
    CASE port \in {P80, P80Tcp, P80Udp} -> Binding(AllInterfaces, <<"80">>)
      [] port = PLocal80 -> Binding(Local, <<"80">>)
      [] port = P81 -> Binding(AllInterfaces, <<"81">>)
      [] port = P443 -> Binding(AllInterfaces, <<"443">>)
      [] OTHER -> Null

CanonicalKeys ==
    {CanonicalKey(port) : port \in {P80, P80Tcp, P80Udp, PLocal80, P81, P443}}

\* the projects that publish a mapping with the canonical key
Publishers(key) ==
    {i \in ProjectIndexes : \E port \in PublishedBy(i) : CanonicalKey(port) = key}

KeysOf(category, i) ==
    {u.key : u \in Range(ProjectUsages(category, compose.v[i]))}

\* C16 (as claimed): for every category and key, compareProjects reports the
\* key exactly when it occurs in more than one project of the input list,
\* two projects of the list counting as two whatever their names.
C16_FindingIffSeveralProjects ==
    Compared =>
        \A c \in DOMAIN Categories :
            \A key \in UNION {KeysOf(Categories[c], i) : i \in ProjectIndexes} :
                (FindingsFor(Categories[c], key) # {})
                    <=> Cardinality({i \in ProjectIndexes :
                                       key \in KeysOf(Categories[c], i)}) > 1

\* C18 (as claimed): compareProjects returns a list of findings for every
\* list of projects, and the empty list for fewer than two projects.
C18_CompareNeverRaises ==
    pc = "done" =>
        /\ result.kind = "ok"
        /\ Len(compose.v) < 2 => result.val = <<>>


----------------------------------------------------------------------------
(* The service pairs mergeServiceConfigs is applied to                      *)

Limits == Obj("resources" :> Obj("limits" :> Obj("cpus" :> Str("0.5"))))

Reservations ==
    Obj(("resources" :> Obj("reservations" :> Obj("memory" :> Str("256M"))))
        @@ ("replicas" :> Str("3")))

\* the values of the deep-merged fields: nested mappings, nested lists
\* under a key of the concatenate list (dns) and under another key (args)
NestedValues ==
    { Obj(EmptyFn), Limits, Reservations,
      Obj("dns" :> Arr(<<Str("1.1.1.1")>>)),
      Obj("dns" :> Arr(<<Str("8.8.8.8"), Str("9.9.9.9")>>)),
      Obj("args" :> Arr(<<Str("a"), Str("b")>>)),
      Obj("args" :> Arr(<<Str("c")>>)),
      Obj("resources" :> Obj("dns" :> Arr(<<Str("1.1.1.1")>>))),
      Obj("resources" :> Str("none")) }

MergedServices ==
    {Obj(EmptyFn)}
    \cup {Obj("deploy" :> d) : d \in NestedValues}
    \cup {Obj(("build" :> d) @@ ("image" :> Str("img"))) : d \in NestedValues}

MergeInit ==
    /\ pc = "merge"
    /\ compose \in {Arr(<<base, override>>) :
                       base \in MergedServices, override \in MergedServices}
    /\ result = "none"
    /\ env = <<>>
    /\ NoFiles /\ NoString /\ NoParse /\ NoHeap

MergeServiceConfigs ==
    /\ pc = "merge"
    /\ result' = Ok(mergeServiceConfigs(compose.v[1], compose.v[2]))
    /\ pc' = "done"
    /\ UNCHANGED <<compose, includeVars, interpVars, env, heap, parseVars>>

MergeNext == MergeServiceConfigs

SpecMerge == MergeInit /\ [][MergeNext]_vars

----------------------------------------------------------------------------
(* Properties of deepMerge                                                  *)

\* the rule the specification gives for one nesting level and below:
\* mappings key by key, a list under a key of the concatenate list is the
\* base list followed by the override list, anything else is the override's
RECURSIVE ThreeWay(_, _)
ThreeWay(b, o) ==
    Obj([k \in (DOMAIN b.v) \cup (DOMAIN o.v) |->
           IF k \notin DOMAIN o.v THEN b.v[k]
           ELSE IF k \notin DOMAIN b.v THEN o.v[k]
           ELSE IF o.v[k].t = "obj" /\ b.v[k].t = "obj"
                THEN ThreeWay(b.v[k], o.v[k])
           ELSE IF o.v[k].t = "arr" /\ b.v[k].t = "arr" /\ k \in ConcatFields
                THEN Arr(b.v[k].v \o o.v[k].v)
           ELSE o.v[k]])

\* the deep-merged fields that both services of the pair carry as mappings
BothMappings ==
    {k \in MergeFields :
        /\ Get(compose.v[1], k).t = "obj"
        /\ Get(compose.v[2], k).t = "obj"}

\* C20: inside a deep-merged field the three-way rule holds at every
\* nesting level: nested mappings are merged key by key, a nested list is
\* replaced by the override's list unless its key is in the concatenate
\* list, in which case it is the base list followed by the override list
C20_DeepMergeThreeWay ==
    pc = "done" =>
        \A k \in BothMappings :
            Get(result.val, k) = ThreeWay(Get(compose.v[1], k), Get(compose.v[2], k))

\* the part of C20 that does not involve the concatenate list: mappings are
\* merged key by key and every list of the result is a list of the base or
\* of the override, whole
RECURSIVE KeyByKey(_, _)
KeyByKey(b, o) ==
    Obj([k \in (DOMAIN b.v) \cup (DOMAIN o.v) |->
           IF k \notin DOMAIN o.v THEN b.v[k]
           ELSE IF k \notin DOMAIN b.v THEN o.v[k]
           ELSE IF o.v[k].t = "obj" /\ b.v[k].t = "obj"
                THEN KeyByKey(b.v[k], o.v[k])
           ELSE o.v[k]])

NestedListsReplaced ==
    pc = "done" =>
        \A k \in BothMappings :
            Get(result.val, k) = KeyByKey(Get(compose.v[1], k), Get(compose.v[2], k))


----------------------------------------------------------------------------
(* The same operations on objects that have an identity.  A heap is the     *)
(* sequence of the objects allocated so far; the address of an object is    *)
(* its index.  A cell is a mapping [t |-> "obj", v |-> key -> value] or a   *)
(* list [t |-> "arr", v |-> <<value, ...>>]; a value is a primitive value   *)
(* of the model or the reference of a cell.  Every operation takes the      *)
(* heap it starts in and returns the heap it leaves (h) with its value (v). *)

Ref(a) == [t |-> "ref", v |-> a]
IsRef(x) == x.t = "ref"
IsObjectAt(h, x) == IsRef(x) /\ h[x.v].t = "obj"
IsArrayAt(h, x) == IsRef(x) /\ h[x.v].t = "arr"

\* every object is truthy
TruthyAt(x) == IsRef(x) \/ Truthy(x)

\* {} , [] , { k: v } : a new object
Alloc(h, cell) == [h |-> Append(h, cell), v |-> Ref(Len(h) + 1)]

\* Object.entries(x), and what { ...x } copies
PropsAt(h, x) ==
    IF IsObjectAt(h, x) THEN h[x.v].v
    ELSE IF IsArrayAt(h, x)
    THEN [k \in {ToString(i - 1) : i \in DOMAIN h[x.v].v} |->
            h[x.v].v[CHOOSE i \in DOMAIN h[x.v].v : ToString(i - 1) = k]]
    ELSE EmptyFn

PropOrder(h, x) == EntriesOrder(Obj(PropsAt(h, x)))

\* x[key] / x.key, read
GetAt(h, x, key) ==
    IF IsObjectAt(h, x) /\ key \in DOMAIN h[x.v].v THEN h[x.v].v[key] ELSE Undef

\* the mutant: the "copy" is the object itself
SpreadObjectAliased(h, x) == [h |-> h, v |-> x]

\* { ...x } : a new object with the properties of x (the values are shared)
SpreadObject(h, x) == Alloc(h, [t |-> "obj", v |-> PropsAt(h, x)])

\* target[key] = value : the heap after the write
SetProperty(h, target, key, value) ==
    [h EXCEPT ![target.v].v = (key :> value) @@ @]

\* delete target.key : the heap after the write
DeleteProperty(h, target, key) ==
    [h EXCEPT ![target.v].v = [k \in (DOMAIN @) \ {key} |-> @[k]]]

\* one step, then the rest of the operation applied to what the step left
\* (the step is computed first, as statements in sequence are)
Then(r, Rest(_)) == CHOOSE out \in {Rest(left) : left \in {r}} : TRUE

\* the objects of a value of the model, allocated one by one (what yaml.load
\* or the caller's own construction leaves in memory): no object is shared
RECURSIVE Build(_, _)
RECURSIVE BuildAll(_, _)
BuildAll(h, xs) ==
    IF xs = <<>> THEN [h |-> h, vs |-> <<>>]
    ELSE Then(Build(h, Head(xs)), LAMBDA first :
         Then(BuildAll(first.h, Tail(xs)), LAMBDA rest :
         [h |-> rest.h, vs |-> <<first.v>> \o rest.vs]))

Build(h, x) ==
    IF x.t = "obj"
    THEN Then(SeqOfSet(DOMAIN x.v), LAMBDA keys :
         Then(BuildAll(h, [i \in DOMAIN keys |-> x.v[keys[i]]]), LAMBDA built :
         Alloc(built.h,
               [t |-> "obj",
                v |-> [k \in DOMAIN x.v |->
                         built.vs[CHOOSE i \in DOMAIN keys : keys[i] = k]]])))
    ELSE IF x.t = "arr"
    THEN Then(BuildAll(h, x.v), LAMBDA built :
         Alloc(built.h, [t |-> "arr", v |-> built.vs]))
    ELSE [h |-> h, v |-> x]

\* the value of the model that x stands for in the heap h
RECURSIVE Read(_, _)
Read(h, x) ==
    IF IsObjectAt(h, x) THEN Obj([k \in DOMAIN h[x.v].v |-> Read(h, h[x.v].v[k])])
    ELSE IF IsArrayAt(h, x) THEN Arr([i \in DOMAIN h[x.v].v |-> Read(h, h[x.v].v[i])])
    ELSE x

\* extendsResolver.js lines 13-24
normalizeDependsOnIn(h, dependsOn) ==
    IF ~TruthyAt(dependsOn) THEN Alloc(h, [t |-> "obj", v |-> EmptyFn])
    ELSE IF IsArrayAt(h, dependsOn)
    THEN LET items == h[dependsOn.v].v
             conditions == [i \in DOMAIN items |->
                              [t |-> "obj",
                               v |-> "condition" :> Str("service_started")]]
             last(n) == CHOOSE i \in DOMAIN items :
                            /\ items[i].v = n
                            /\ \A j \in DOMAIN items : items[j].v = n => j <= i
         IN  Alloc(h \o conditions,
                   [t |-> "obj",
                    v |-> [n \in {items[i].v : i \in DOMAIN items} |->
                             Ref(Len(h) + last(n))]])
    ELSE [h |-> h, v |-> dependsOn]

\* extendsResolver.js lines 71-86
RECURSIVE deepMergeIn(_, _, _)
RECURSIVE deepMergeEntries(_, _, _, _)
deepMergeEntries(h, out, override, keys) ==
    IF keys = <<>> THEN [h |-> h, v |-> out]
    ELSE Then(PropsAt(h, override)[Head(keys)], LAMBDA value :
         IF IsObjectAt(h, value)
         THEN Then(deepMergeIn(h, GetAt(h, out, Head(keys)), value), LAMBDA merged :
              deepMergeEntries(SetProperty(merged.h, out, Head(keys), merged.v),
                               out, override, Tail(keys)))
         ELSE deepMergeEntries(SetProperty(h, out, Head(keys), value),
                               out, override, Tail(keys)))

deepMergeIn(h, base, override) ==
    IF ~IsRef(base) THEN [h |-> h, v |-> override]
    ELSE IF ~IsRef(override) THEN [h |-> h, v |-> base]
    ELSE Then(SpreadObject(h, base), LAMBDA out :
         deepMergeEntries(out.h, out.v, override, PropOrder(h, override)))

\* [...x] of a list or a string (no service of the documents below holds a
\* mapping under a key of the concatenate list)
SpreadAt(h, x) ==
    IF IsArrayAt(h, x) THEN h[x.v].v
    ELSE IF IsRef(x) THEN <<>>
    ELSE Spread(x)

\* extendsResolver.js lines 97-105: { ...s } with depends_on normalized
NormalizedServiceIn(h, s) ==
    Then(SpreadObject(h, s), LAMBDA normalized :
    Then(GetAt(h, s, "depends_on"), LAMBDA dependsOn :
    IF TruthyAt(dependsOn)
    THEN Then(normalizeDependsOnIn(normalized.h, dependsOn), LAMBDA d :
         [h |-> SetProperty(d.h, normalized.v, "depends_on", d.v),
          v |-> normalized.v])
    ELSE normalized))

\* extendsResolver.js line 114: a new list, the old items then the new ones
ConcatValueIn(h, old, value) ==
    Alloc(h, [t |-> "arr",
              v |-> SpreadAt(h, old)
                    \o (IF IsArrayAt(h, value) THEN h[value.v].v ELSE <<value>>)])

\* extendsResolver.js line 117: deepMerge(result[key] || {}, value)
MergeValueIn(h, old, value) ==
    IF TruthyAt(old) THEN deepMergeIn(h, old, value)
    ELSE Then(Alloc(h, [t |-> "obj", v |-> EmptyFn]), LAMBDA b :
         deepMergeIn(b.h, b.v, value))

\* extendsResolver.js lines 109-122
RECURSIVE mergeEntries(_, _, _, _)
mergeEntries(h, out, normalizedOverride, keys) ==
    IF keys = <<>> THEN [h |-> h, v |-> out]
    ELSE Then(GetAt(h, normalizedOverride, Head(keys)), LAMBDA value :
         Then(GetAt(h, out, Head(keys)), LAMBDA old :
         Then(CASE MERGE_STRATEGIES(Head(keys)) = "concat" ->
                     ConcatValueIn(h, old, value)
                [] MERGE_STRATEGIES(Head(keys)) = "merge" ->
                     MergeValueIn(h, old, value)
                [] OTHER -> [h |-> h, v |-> value],
              LAMBDA written :
         mergeEntries(SetProperty(written.h, out, Head(keys), written.v),
                      out, normalizedOverride, Tail(keys)))))

\* extendsResolver.js lines 95-125
mergeServiceConfigsIn(h, base, override) ==
    Then(NormalizedServiceIn(h, base), LAMBDA normalizedBase :
    Then(NormalizedServiceIn(normalizedBase.h, override), LAMBDA normalizedOverride :
    Then(SpreadObject(normalizedOverride.h, normalizedBase.v), LAMBDA out :
    mergeEntries(out.h, out.v, normalizedOverride.v,
                 PropOrder(out.h, normalizedOverride.v)))))

\* what a call leaves: the heap, and the value it returned unless it raised
Returning(r) == [h |-> r.h, v |-> r.v, ok |-> TRUE]
Raising(h) == [h |-> h, v |-> Undef, ok |-> FALSE]

\* extendsResolver.js line 160: const { extends: _, ...serviceWithoutExtends }
WithoutExtendsIn(h, service) ==
    Alloc(h, [t |-> "obj",
              v |-> [k \in (DOMAIN PropsAt(h, service)) \ {"extends"} |->
                       PropsAt(h, service)[k]]])

\* extendsResolver.js lines 135-164
RECURSIVE resolveServiceExtendsIn(_, _, _, _)
resolveServiceExtendsIn(h, service, allServices, visited) ==
    IF service.t \in {"null", "undef"} THEN Raising(h)
    ELSE IF ~TruthyAt(GetAt(h, service, "extends"))
    THEN Returning([h |-> h, v |-> service])
    ELSE Then(GetAt(h, service, "extends"), LAMBDA ext :
         Then(IF ext.t = "str" THEN ext ELSE GetAt(h, ext, "service"),
              LAMBDA extendedServiceName :
         Then(IF extendedServiceName.t = "str"
              THEN GetAt(h, allServices, extendedServiceName.v) ELSE Undef,
              LAMBDA extendedService :
         IF extendedServiceName \in Range(visited) THEN Raising(h)
         ELSE IF ~TruthyAt(extendedService) THEN Raising(h)
         ELSE Then(resolveServiceExtendsIn(h, extendedService, allServices,
                                           Append(visited, extendedServiceName)),
                   LAMBDA resolvedBase :
              IF ~resolvedBase.ok THEN resolvedBase
              ELSE Then(WithoutExtendsIn(resolvedBase.h, service),
                        LAMBDA serviceWithoutExtends :
                   Returning(mergeServiceConfigsIn(serviceWithoutExtends.h,
                                                   resolvedBase.v,
                                                   serviceWithoutExtends.v)))))))

\* extendsResolver.js lines 177-183
RECURSIVE resolveEach(_, _, _, _)
resolveEach(h, resolvedServices, services, names) ==
    IF names = <<>> THEN Returning([h |-> h, v |-> resolvedServices])
    ELSE Then(resolveServiceExtendsIn(h, GetAt(h, services, Head(names)),
                                      services, <<>>), LAMBDA r :
         IF ~r.ok THEN r
         ELSE resolveEach(SetProperty(r.h, resolvedServices, Head(names), r.v),
                          resolvedServices, services, Tail(names)))

\* extendsResolver.js lines 172-189
resolveAllExtendsIn(h, c) ==
    Then(GetAt(h, c, "services"), LAMBDA services :
    IF ~TruthyAt(services) THEN Returning([h |-> h, v |-> c])
    ELSE Then(Alloc(h, [t |-> "obj", v |-> EmptyFn]), LAMBDA resolvedServices :
         Then(resolveEach(resolvedServices.h, resolvedServices.v, services,
                          PropOrder(h, services)), LAMBDA r :
         IF ~r.ok THEN r
         ELSE Returning(Alloc(r.h,
                  [t |-> "obj",
                   v |-> ("services" :> r.v) @@ PropsAt(r.h, c)])))))

\* includeResolver.js lines 244-249: { ...(result[key] || {}), ...(value || {}) }
SpreadUnionIn(h, old, value) ==
    Alloc(h, [t |-> "obj", v |-> PropsAt(h, value) @@ PropsAt(h, old)])

\* includeResolver.js lines 239-253: the loop over the keys of the override
RECURSIVE composeEntries(_, _, _, _)
composeEntries(h, out, override, keys) ==
    IF keys = <<>> THEN [h |-> h, v |-> out]
    ELSE Then(PropsAt(h, override)[Head(keys)], LAMBDA value :
         IF Head(keys) # "name" /\ Head(keys) \in CollectionKeys
         THEN Then(SpreadUnionIn(h, GetAt(h, out, Head(keys)), value), LAMBDA union :
              composeEntries(SetProperty(union.h, out, Head(keys), union.v),
                             out, override, Tail(keys)))
         ELSE composeEntries(SetProperty(h, out, Head(keys), value),
                             out, override, Tail(keys)))

\* includeResolver.js lines 232-257
mergeComposeFilesIn(h, base, override) ==
    IF ~TruthyAt(override)
    THEN (IF TruthyAt(base) THEN [h |-> h, v |-> base]
          ELSE Alloc(h, [t |-> "obj", v |-> EmptyFn]))
    ELSE IF ~TruthyAt(base) THEN [h |-> h, v |-> override]
    ELSE Then(SpreadObject(h, base), LAMBDA out :
         composeEntries(out.h, out.v, override, PropOrder(h, override)))

RECURSIVE resolveIncludesIn(_, _, _, _, _)
RECURSIVE includeLoopIn(_, _, _, _, _, _, _)

\* includeResolver.js lines 312-334: the file of the FileMap is loaded, its
\* own includes are resolved, and the result is merged under merged
IncludeOneIn(h, content, absoluteInclude, merged, fm, newVisited) ==
    Then(Build(h, content.yaml), LAMBDA included :
    Then(resolveIncludesIn(included.h, included.v, absoluteInclude, fm, newVisited),
         LAMBDA resolvedInclude :
    IF ~resolvedInclude.ok THEN resolvedInclude
    ELSE Returning(mergeComposeFilesIn(resolvedInclude.h, resolvedInclude.v, merged))))

\* includeResolver.js lines 290-335; fm is the reference of the FileMap
includeLoopIn(h, includes, i, merged, currentFile, fm, newVisited) ==
    IF i > Len(includes) THEN Returning([h |-> h, v |-> merged])
    ELSE Then(IF IsString(includes[i]) THEN includes[i]
              ELSE GetAt(h, includes[i], "path"), LAMBDA includePath :
         IF ~TruthyAt(includePath)
         THEN includeLoopIn(h, includes, i + 1, merged, currentFile, fm, newVisited)
         ELSE Then(resolvePath(currentFile, includePath.v), LAMBDA absoluteInclude :
              IF absoluteInclude \in Range(newVisited) THEN Raising(h)
              ELSE IF \/ absoluteInclude \notin DOMAIN h[fm.v].v
                      \/ h[fm.v].v[absoluteInclude].text # "yaml"
              THEN Raising(h)
              ELSE Then(IncludeOneIn(h, h[fm.v].v[absoluteInclude], absoluteInclude,
                                     merged, fm, newVisited), LAMBDA next :
                   IF ~next.ok THEN next
                   ELSE includeLoopIn(next.h, includes, i + 1, next.v,
                                      currentFile, fm, newVisited))))

\* includeResolver.js lines 268-338
resolveIncludesIn(h, c, currentFile, fm, visited) ==
    IF ~TruthyAt(c) \/ ~TruthyAt(GetAt(h, c, "include"))
    THEN Returning([h |-> h, v |-> c])
    ELSE IF normalizePath(currentFile) \in Range(visited) THEN Raising(h)
    ELSE Then(SpreadObject(h, c), LAMBDA merged :
         Then(GetAt(h, c, "include"), LAMBDA include :
         includeLoopIn(DeleteProperty(merged.h, merged.v, "include"),
                       IF IsArrayAt(h, include) THEN h[include.v].v
                       ELSE <<include>>,
                       1, merged.v, currentFile, fm,
                       Append(visited, normalizePath(currentFile)))))

\* variableInterpolator.js lines 214-249; environment is the reference of
\* the Environment
RECURSIVE interpolateIn(_, _, _, _)
RECURSIVE interpolateItems(_, _, _, _)
RECURSIVE interpolateEntries(_, _, _, _, _, _)

\* value.map(item => interpolate(item, ...))
interpolateItems(h, items, environment, addMetadata) ==
    IF items = <<>> THEN [h |-> h, vs |-> <<>>]
    ELSE Then(interpolateIn(h, Head(items), environment, addMetadata), LAMBDA first :
         Then(interpolateItems(first.h, Tail(items), environment, addMetadata),
              LAMBDA rest :
         [h |-> rest.h, vs |-> <<first.v>> \o rest.vs]))

\* for (const [key, val] of Object.entries(value)) out[key] = interpolate(val, ...)
interpolateEntries(h, out, value, keys, environment, addMetadata) ==
    IF keys = <<>> THEN [h |-> h, v |-> out]
    ELSE Then(interpolateIn(h, GetAt(h, value, Head(keys)), environment, addMetadata),
              LAMBDA r :
         interpolateEntries(SetProperty(r.h, out, Head(keys), r.v), out, value,
                            Tail(keys), environment, addMetadata))

\* variableInterpolator.js lines 222-233: the leaf that replaces a string
InterpolatedLeafIn(h, value, r, addMetadata) ==
    IF addMetadata /\ r.hasVariable
    THEN Then(Alloc(h, [t |-> "arr",
                        v |-> [i \in DOMAIN r.variables |-> Tmpl(r.variables[i])]]),
              LAMBDA variables :
         Alloc(variables.h,
               [t |-> "obj",
                v |-> ("_value" :> Tmpl(r.val)) @@ ("_original" :> value)
                      @@ ("_hasVariable" :> True)
                      @@ ("_variables" :> variables.v)]))
    ELSE [h |-> h, v |-> Tmpl(r.val)]

interpolateIn(h, value, environment, addMetadata) ==
    IF value.t = "tmpl"
    THEN InterpolatedLeafIn(h, value,
                            interpolateString(value.v, h[environment.v].v, FALSE),
                            addMetadata)
    ELSE IF IsArrayAt(h, value)
    THEN Then(interpolateItems(h, h[value.v].v, environment, addMetadata),
              LAMBDA items :
         Alloc(items.h, [t |-> "arr", v |-> items.vs]))
    ELSE IF IsObjectAt(h, value)
    THEN Then(Alloc(h, [t |-> "obj", v |-> EmptyFn]), LAMBDA out :
         interpolateEntries(out.h, out.v, value, PropOrder(h, value),
                            environment, addMetadata))
    ELSE [h |-> h, v |-> value]

\* profileFilter.js lines 115-120
RECURSIVE filterEntries(_, _, _, _, _)
filterEntries(h, filteredServices, services, names, activeProfiles) ==
    IF names = <<>> THEN [h |-> h, v |-> filteredServices]
    ELSE Then(PropsAt(h, services)[Head(names)], LAMBDA service :
         IF matchesProfiles(Read(h, service), ActiveList(Read(h, activeProfiles)))
         THEN filterEntries(SetProperty(h, filteredServices, Head(names), service),
                            filteredServices, services, Tail(names), activeProfiles)
         ELSE filterEntries(h, filteredServices, services, Tail(names),
                            activeProfiles))

\* profileFilter.js lines 103-126; activeProfiles is the reference of a list,
\* or undefined or null
filterByProfilesIn(h, c, activeProfiles) ==
    IF ~TruthyAt(c) THEN [h |-> h, v |-> c]
    ELSE IF ~TruthyAt(GetAt(h, c, "services")) THEN [h |-> h, v |-> c]
    ELSE Then(GetAt(h, c, "services"), LAMBDA services :
         Then(Alloc(h, [t |-> "obj", v |-> EmptyFn]), LAMBDA filteredServices :
         Then(filterEntries(filteredServices.h, filteredServices.v, services,
                            PropOrder(h, services), activeProfiles), LAMBDA filtered :
         Alloc(filtered.h,
               [t |-> "obj",
                v |-> ("services" :> filtered.v) @@ PropsAt(filtered.h, c)]))))

\* composeParser.js: the stage compose = stage(compose) inside try/catch
StageIn(before, after) ==
    IF after.ok THEN [h |-> after.h, v |-> after.v]
    ELSE [h |-> after.h, v |-> before.v]

\* composeParser.js lines 60-71
StageIncludesIn(parsed, o) ==
    IF ~o.enableIncludes THEN parsed
    ELSE StageIn(parsed, resolveIncludesIn(parsed.h, parsed.v, o.basePath,
                                           o.fileMap, <<>>))

\* composeParser.js lines 74-85
StageExtendsIn(included, o) ==
    IF ~o.enableExtends THEN included
    ELSE StageIn(included, resolveAllExtendsIn(included.h, included.v))

\* composeParser.js lines 104-138
StageVariablesIn(extended, o) ==
    IF ~o.enableVariables THEN extended
    ELSE interpolateIn(extended.h, extended.v, o.environment, o.addMetadata)

\* composeParser.js lines 141-143
StageProfilesIn(interpolated, o) ==
    IF ~o.enableProfiles THEN interpolated
    ELSE filterByProfilesIn(interpolated.h, interpolated.v, o.activeProfiles)

\* composeParser.js lines 36-170: the heap parseCompose leaves and the
\* document it returns (the metadata and the diagnostics are held in objects
\* that parseCompose creates; they are computed from reads of the document
\* and of the Environment); o holds the references of options.fileMap,
\* options.environment and options.activeProfiles
parseComposeIn(h, y, o) ==
    Then(YamlLoad(y), LAMBDA loaded :
    IF loaded.kind # "ok" \/ ~Truthy(loaded.val) \/ ~IsObjectLike(loaded.val)
    THEN [h |-> h, v |-> Null]
    ELSE Then(Build(h, loaded.val), LAMBDA parsed :
         Then(StageIncludesIn(parsed, o), LAMBDA included :
         Then(StageExtendsIn(included, o), LAMBDA extended :
         Then(StageVariablesIn(extended, o), LAMBDA interpolated :
         StageProfilesIn(interpolated, o))))))

----------------------------------------------------------------------------
(* The calls whose effect on the caller's objects is observed: the caller   *)
(* holds a document, a FileMap, an Environment and a list of active         *)
(* profiles, each built of objects of its own, and calls one operation      *)

\* the memory of the caller before the call
Memory(doc, files, environment, active) ==
    Then(Build(<<>>, doc), LAMBDA d :
    Then(Alloc(d.h, [t |-> "obj", v |-> files]), LAMBDA f :
    Then(Alloc(f.h, [t |-> "obj", v |-> environment]), LAMBDA e :
    Then(Build(e.h, active), LAMBDA a :
    [h |-> a.h, compose |-> d.v, fileMap |-> f.v, env |-> e.v,
     activeProfiles |-> a.v]))))

FrameFileMaps ==
    PipelineFileMaps
    \cup { (PathB :> Yaml(Obj(("include" :> i) @@ BodyB)))
           @@ (PathC :> Yaml(Obj(BodyC))) :
              i \in { Path(<<".", "sub", "c.yml">>),
                      Arr(<<Path(<<"sub", "..", ".", "a.yml">>)>>) } }

FrameServices ==
    { Obj(body) : body \in ServiceBodies }
    \cup { Obj(("extends" :> Str("b")) @@ ("ports" :> Arr(<<Str("80")>>))),
           Obj(("extends" :> Obj("service" :> Str("c")))
               @@ ("depends_on" :> Arr(<<Str("db")>>))),
           Obj(("extends" :> Str("a")) @@ ("depends_on" :> DependsOnObject)),
           Obj("extends" :> Str("zz")) }

FrameExtendsDocuments ==
    {Obj("services" :> Obj(f)) : f \in [{"a", "b"} -> FrameServices]}
    \cup {Obj("services" :> Obj(("c" :> Obj("image" :> Str("img"))) @@ f)) :
             f \in [{"a", "b"} -> FrameServices]}

FramePairs ==
    LET services == {Obj(body) : body \in ServiceBodies}
                    \cup {Obj("deploy" :> d) :
                             d \in {Limits, Reservations,
                                    Obj("dns" :> Arr(<<Str("1.1.1.1")>>))}}
    IN  {Arr(<<base, override>>) : base \in services, override \in services}

FrameTrees ==
    PipelineDocuments
    \cup ExtractTrees(PlainReference)
    \cup ExtractTrees(Reference(VarX, <<":", "-">>, <<"d">>))
    \cup ExtractTrees(Reference(VarX, <<"?">>, <<"d">>))

AllStages ==
    [addMetadata |-> FALSE, enableIncludes |-> TRUE, enableExtends |-> TRUE,
     enableVariables |-> TRUE, enableProfiles |-> TRUE]

\* every stage enabled, with and without metadata, and one stage disabled
FrameFlags ==
    { AllStages,
      [AllStages EXCEPT !.addMetadata = TRUE],
      [AllStages EXCEPT !.enableIncludes = FALSE],
      [AllStages EXCEPT !.enableExtends = FALSE],
      [AllStages EXCEPT !.enableVariables = FALSE],
      [AllStages EXCEPT !.enableProfiles = FALSE] }

\* the inputs of the calls of one operation
FrameInputs(op) ==
    CASE op = "resolveIncludes" ->
           [doc : RootDocuments, files : FrameFileMaps,
            environment : {EmptyFn}, active : {Arr(<<>>)},
            text : {"none"}, flags : {AllStages}]
      [] op = "resolveAllExtends" ->
           [doc : FrameExtendsDocuments, files : {EmptyFn},
            environment : {EmptyFn}, active : {Arr(<<>>)},
            text : {"none"}, flags : {AllStages}]
      [] op = "mergeServiceConfigs" ->
           [doc : FramePairs, files : {EmptyFn},
            environment : {EmptyFn}, active : {Arr(<<>>)},
            text : {"none"}, flags : {AllStages}]
      [] op = "interpolate" ->
           [doc : FrameTrees, files : {EmptyFn},
            environment : Environments, active : {Arr(<<>>)},
            text : {"none"},
            flags : {[AllStages EXCEPT !.addMetadata = b] : b \in BOOLEAN}]
      [] op = "filterByProfiles" ->
           [doc : ProfiledDocuments, files : {EmptyFn},
            environment : {EmptyFn},
            active : {Null, Arr(<<Dev>>), Arr(<<Prod, Dev>>)},
            text : {"none"}, flags : {AllStages}]
      [] op = "parseCompose" ->
           [doc : {Undef}, files : PipelineFileMaps,
            environment : {EmptyFn, VarX :> <<"v">>},
            active : {Arr(<<Dev>>)},
            text : YamlStrings, flags : FrameFlags]

FrameOperations ==
    {"resolveIncludes", "resolveAllExtends", "mergeServiceConfigs", "interpolate",
     "filterByProfiles", "parseCompose"}

FrameInit ==
    /\ pc \in FrameOperations
    /\ \E in \in FrameInputs(pc) :
          LET m == Memory(in.doc, in.files, in.environment, in.active)
          IN  /\ heap = m.h
              /\ compose = m.compose
              /\ fileMap = m.fileMap
              /\ env = m.env
              /\ yamlString = in.text
              /\ options = [activeProfiles |-> m.activeProfiles, flags |-> in.flags]
    /\ basePath = PathA
    /\ result = "none"
    /\ errors = <<>> /\ meta = "none"
    /\ NoString

\* the call returns (or raises) and leaves the heap r.h
Leaves(op, r) ==
    /\ heap' = r.h
    /\ result' = [op |-> op, v |-> r.v]
    /\ pc' = "done"
    /\ UNCHANGED <<compose, includeVars, interpVars, env, parseVars>>

CallResolveIncludes ==
    /\ pc = "resolveIncludes"
    /\ Leaves(pc, resolveIncludesIn(heap, compose, basePath, fileMap, <<>>))

CallResolveAllExtends ==
    /\ pc = "resolveAllExtends"
    /\ Leaves(pc, resolveAllExtendsIn(heap, compose))

CallMergeServiceConfigs ==
    /\ pc = "mergeServiceConfigs"
    /\ Leaves(pc, mergeServiceConfigsIn(heap, heap[compose.v].v[1],
                                        heap[compose.v].v[2]))

CallInterpolate ==
    /\ pc = "interpolate"
    /\ Leaves(pc, interpolateIn(heap, compose, env, options.flags.addMetadata))

CallFilterByProfiles ==
    /\ pc = "filterByProfiles"
    /\ Leaves(pc, filterByProfilesIn(heap, compose, options.activeProfiles))

CallParseCompose ==
    /\ pc = "parseCompose"
    /\ Leaves(pc, parseComposeIn(heap, yamlString,
                      [basePath |-> basePath, fileMap |-> fileMap,
                       environment |-> env,
                       activeProfiles |-> options.activeProfiles,
                       addMetadata |-> options.flags.addMetadata,
                       enableIncludes |-> options.flags.enableIncludes,
                       enableExtends |-> options.flags.enableExtends,
                       enableVariables |-> options.flags.enableVariables,
                       enableProfiles |-> options.flags.enableProfiles]))

FrameNext ==
    \/ CallResolveIncludes
    \/ CallResolveAllExtends
    \/ CallMergeServiceConfigs
    \/ CallInterpolate
    \/ CallFilterByProfiles
    \/ CallParseCompose

SpecFrame == FrameInit /\ [][FrameNext]_vars

----------------------------------------------------------------------------
(* Properties of the calls on the caller's objects                          *)

\* C19: no pipeline operation changes a value supplied by the caller: when
\* resolveIncludes, resolveAllExtends, mergeServiceConfigs, interpolate,
\* filterByProfiles or parseCompose returns or raises, every object the
\* caller held before the call (the document with its include key and every
\* nested service, list and mapping, the FileMap, the Environment) is what
\* it was before the call
C19_CallerValuesUnchanged ==
    [][\A a \in DOMAIN heap : heap'[a] = heap[a]]_vars

\* resolveIncludes has returned a document without the include key, and the
\* caller's document, another object, still holds its include key
C19_Witness ==
    /\ pc = "done"
    /\ result.op = "resolveIncludes"
    /\ IsObjectAt(heap, result.v)
    /\ result.v # compose
    /\ "include" \in DOMAIN heap[compose.v].v
    /\ "include" \notin DOMAIN heap[result.v.v].v
    /\ "api" \in DOMAIN PropsAt(heap, GetAt(heap, result.v, "services"))


\* the value an operation of the value model returned, Undef when it raised
ValueOf(r) == IF r.kind = "ok" THEN r.val ELSE Undef

\* what the call returns is, read from the heap, what the operation on
\* values returns for the caller's values read from the heap
HeapAgreesWithValues ==
    pc = "done" =>
        LET doc == Read(heap, compose)
            returned == Read(heap, result.v)
        IN  CASE result.op = "resolveIncludes" ->
                   returned = ValueOf(resolveIncludes(doc, basePath,
                                                      heap[fileMap.v].v, <<>>))
              [] result.op = "resolveAllExtends" ->
                   returned = ValueOf(resolveAllExtends(doc))
              [] result.op = "mergeServiceConfigs" ->
                   returned = mergeServiceConfigs(doc.v[1], doc.v[2])
              [] result.op = "interpolate" ->
                   returned = interpolate(doc, heap[env.v].v, options.flags.addMetadata)
              [] result.op = "filterByProfiles" ->
                   returned = filterByProfiles(doc,
                                  ActiveList(Read(heap, options.activeProfiles)))
              [] OTHER -> TRUE


----------------------------------------------------------------------------
(* The services each merge strategy is applied to: a concatenate field as a *)
(* list or as a scalar, an override field, and one deep-merged field as a   *)
(* mapping, a list or a scalar                                              *)

Field(key, x) == IF x = Undef THEN EmptyFn ELSE key :> x

StrategyPorts ==
    { Undef, Arr(<<>>), Arr(<<Str("80")>>), Arr(<<Str("80"), Str("81")>>),
      Str("80") }

StrategyImages == {Undef, Str("img")}

StrategyDeepFields ==
    { EmptyFn,
      "environment" :> Obj("A" :> Str("1")),
      "environment" :> Arr(<<Str("A=1")>>),
      "labels" :> Obj(EmptyFn),
      "build" :> Str("."),
      "deploy" :> Limits,
      "deploy" :> Obj("args" :> Arr(<<Str("a"), Str("b")>>)),
      "depends_on" :> Arr(<<Str("db")>>),
      "depends_on" :> Obj("db" :> Obj("condition" :> Str("service_healthy"))) }

StrategyServices ==
    { Obj(Field("ports", p) @@ Field("image", i) @@ d) :
        p \in StrategyPorts, i \in StrategyImages, d \in StrategyDeepFields }

StrategyInit ==
    /\ pc = "merge"
    /\ compose \in {Arr(<<base, override>>) :
                       base \in StrategyServices, override \in StrategyServices}
    /\ result = "none"
    /\ env = <<>>
    /\ NoFiles /\ NoString /\ NoParse /\ NoHeap

SpecStrategy == StrategyInit /\ [][MergeNext]_vars

----------------------------------------------------------------------------
(* Properties of mergeServiceConfigs, strategy by strategy                  *)

MergedBase == compose.v[1]
MergedOverride == compose.v[2]
SelfMerged == pc = "done" /\ MergedBase = MergedOverride

\* C21: merging a service onto itself doubles every list of a concatenate
\* field and leaves every override field and every deep-merged field
\* (environment, labels, build, deploy, logging, depends_on) equal to its
\* value in the service, whether that value is a scalar, a list or a mapping
C21_SelfMergeDoublesListsKeepsRest ==
    SelfMerged =>
        \A k \in DOMAIN MergedBase.v :
            LET old == MergedBase.v[k]
                new == Get(result.val, k)
            IN  IF k \in ConcatFields
                THEN old.t = "arr" =>
                         new.t = "arr" /\ Len(new.v) = 2 * Len(old.v)
                ELSE new = old

\* what does hold of a self-merge: lists of concatenate fields are doubled,
\* override fields are kept, and a deep-merged field is kept when it is a
\* mapping or a non-empty scalar
SelfMergeKeepsMappings ==
    SelfMerged =>
        \A k \in DOMAIN MergedBase.v :
            LET old == MergedBase.v[k]
                new == Get(result.val, k)
            IN  CASE k \in ConcatFields ->
                       old.t = "arr" =>
                           new.t = "arr" /\ new.v = old.v \o old.v
                  [] k \in MergeFields ->
                       (old.t = "obj" \/ (old.t = "str" /\ Truthy(old))) => new = old
                  [] OTHER -> new = old

\* the items a side contributes when a scalar counts as a one-element list
Items(x) ==
    IF x = Undef THEN <<>>
    ELSE IF x.t = "arr" THEN x.v
    ELSE <<x>>

\* C29: for a concatenate field of the override, a scalar string on either
\* side counts as a one-element list: the merged value is the list of the
\* base's items followed by the override's items, each scalar one whole item
C29_ScalarIsOneItem ==
    pc = "done" =>
        \A k \in ConcatFields \cap DOMAIN MergedOverride.v :
            Get(result.val, k) =
                Arr(Items(Get(MergedBase, k)) \o Items(Get(MergedOverride, k)))

\* what does hold: the override's scalar is one whole item, after the base's
\* list (or alone when the base has no such field)
OverrideScalarIsOneItem ==
    pc = "done" =>
        \A k \in ConcatFields \cap DOMAIN MergedOverride.v :
            Get(MergedBase, k).t \in {"arr", "undef"} =>
                Get(result.val, k) =
                    Arr(Items(Get(MergedBase, k)) \o Items(Get(MergedOverride, k)))

----------------------------------------------------------------------------
(* The trees interpolate is applied to in non-throwing mode: leaves made of *)
(* literal text and references to X and Y, some of them required            *)

VarY == <<"Y">>

MaxSegments == 2

Segment(kind, name, colon, text) ==
    [kind |-> kind, name |-> name, colon |-> colon, text |-> text]

Segments ==
    { Segment("literal", <<>>, FALSE, <<"a">>),
      Segment("plain", VarX, FALSE, <<>>),
      Segment("required", VarX, TRUE, <<"m">>),
      Segment("required", VarX, FALSE, <<"m">>),
      Segment("default", VarY, TRUE, <<"d">>),
      Segment("required", VarY, TRUE, <<"n">>) }

\* the text of a segment as it is written in the document
SegmentText(g) ==
    CASE g.kind = "literal" -> g.text
      [] g.kind = "plain" -> <<"$", "{">> \o g.name \o <<"}">>
      [] g.kind = "default" ->
           Reference(g.name, IF g.colon THEN <<":", "-">> ELSE <<"-">>, g.text)
      [] OTHER ->
           Reference(g.name, IF g.colon THEN <<":", "?">> ELSE <<"?">>, g.text)

RECURSIVE SegmentLists(_)
SegmentLists(n) ==
    IF n = 0 THEN {<<>>}
    ELSE SegmentLists(n - 1)
         \cup {Append(l, g) : l \in {u \in SegmentLists(n - 1) : Len(u) = n - 1},
                             g \in Segments}

LeafSegments == SegmentLists(MaxSegments) \ {<<>>}

RECURSIVE LeafText(_)
LeafText(l) == IF l = <<>> THEN <<>> ELSE SegmentText(Head(l)) \o LeafText(Tail(l))

\* the document of the test "interpolates defaults even when required
\* variables are missing": one leaf in a list, one in a nested mapping
LenientTree(first, second) ==
    Obj("web" :> Obj(("image" :> Str("nginx"))
                     @@ ("ports" :> Arr(<<Tmpl(first)>>))
                     @@ ("environment" :> Obj("SECRET" :> Tmpl(second)))))

LenientTrees ==
    { LenientTree(LeafText(l), SegmentText(g)) : l \in LeafSegments, g \in Segments }

LenientEnvironments ==
    { x @@ y : x \in {[n \in {} |-> <<>>], VarX :> <<>>, VarX :> <<"v">>},
               y \in {[n \in {} |-> <<>>], VarY :> <<"w">>} }

LenientInit ==
    /\ pc = "interpolate"
    /\ compose \in LenientTrees
    /\ env \in LenientEnvironments
    /\ throwOnError = FALSE
    /\ str = <<>>
    /\ result = "none"
    /\ NoFiles /\ NoParse /\ NoHeap

\* the string leaves of a tree
RECURSIVE StringLeaves(_)
StringLeaves(value) ==
    CASE value.t = "tmpl" -> {value.v}
      [] value.t = "arr" -> UNION {StringLeaves(value.v[i]) : i \in DOMAIN value.v}
      [] value.t = "obj" -> UNION {StringLeaves(value.v[k]) : k \in DOMAIN value.v}
      [] OTHER -> {}

\* interpolate(compose, env, false, {throwOnError: false, onError}): it
\* raises when the replace of some leaf raises
InterpolateLenient ==
    /\ pc = "interpolate"
    /\ result' =
          [kind |-> IF \A leaf \in StringLeaves(compose) :
                          interpolateString(leaf, env, throwOnError).kind = "ok"
                    THEN "ok" ELSE "error",
           val |-> interpolate(compose, env, FALSE),
           reported |-> Reported(compose, env)]
    /\ pc' = "done"
    /\ UNCHANGED <<compose, includeVars, interpVars, env, heap, parseVars>>

LenientNext == InterpolateLenient

SpecLenient == LenientInit /\ [][LenientNext]_vars

----------------------------------------------------------------------------
(* Properties of interpolate in non-throwing mode                           *)

\* a required reference fails when its variable is absent, or, with the
\* colon, absent or empty
SegmentFails(g) ==
    /\ g.kind = "required"
    /\ IF g.colon THEN g.name \notin DOMAIN env \/ env[g.name] = <<>>
       ELSE g.name \notin DOMAIN env

\* what a segment stands for in the output: a failing reference its own
\* text, any other reference its substitution
SegmentValue(g) ==
    LET isSet == g.name \in DOMAIN env
        value == IF isSet THEN env[g.name] ELSE <<>>
    IN  CASE g.kind = "literal" -> g.text
          [] SegmentFails(g) -> SegmentText(g)
          [] g.kind = "default" ->
               IF (IF g.colon THEN value = <<>> ELSE ~isSet) THEN g.text ELSE value
          [] OTHER -> value

RECURSIVE LeafValue(_)
LeafValue(l) == IF l = <<>> THEN <<>> ELSE SegmentValue(Head(l)) \o LeafValue(Tail(l))

\* the failures of a leaf, one for each failing occurrence
RECURSIVE LeafFailures(_)
LeafFailures(l) ==
    IF l = <<>> THEN <<>>
    ELSE (IF SegmentFails(Head(l))
          THEN <<[msg |-> Head(l).text, varName |-> Head(l).name]>>
          ELSE <<>>) \o LeafFailures(Tail(l))

Occurrences(s, x) == Cardinality({i \in DOMAIN s : s[i] = x})

FirstLeaf == compose.v["web"].v["ports"].v[1].v
SecondLeaf == compose.v["web"].v["environment"].v["SECRET"].v

\* C22: in non-throwing mode interpolate never raises on a failing required
\* reference: the text of the failing reference stays in place in its leaf,
\* onError is called once for each failing occurrence, and every other
\* reference of the same leaf and of the other leaves is substituted
C22_FailingReferenceStaysInPlace ==
    pc = "done" =>
        \A l \in LeafSegments, g \in Segments :
            (FirstLeaf = LeafText(l) /\ SecondLeaf = SegmentText(g)) =>
                LET failures == LeafFailures(l) \o LeafFailures(<<g>>)
                IN  /\ result.kind = "ok"
                    /\ result.val = LenientTree(LeafValue(l), SegmentValue(g))
                    /\ Len(result.reported) = Len(failures)
                    /\ \A f \in Range(failures) \cup Range(result.reported) :
                           Occurrences(result.reported, f) = Occurrences(failures, f)

\* the same required reference fails twice in one leaf, next to a default
\* that is substituted in the other leaf
C22_Witness ==
    /\ pc = "done"
    /\ FirstLeaf = <<"$", "{", "X", ":", "?", "m", "}", "$", "{", "X", ":", "?", "m", "}">>
    /\ SecondLeaf = <<"$", "{", "Y", ":", "-", "d", "}">>
    /\ VarX \notin DOMAIN env /\ VarY \notin DOMAIN env
    /\ result.kind = "ok"
    /\ result.val = LenientTree(FirstLeaf, <<"d">>)
    /\ Len(result.reported) = 2

----------------------------------------------------------------------------
(* The documents parseCompose is applied to with failing references in      *)
(* several leaves                                                           *)

DiagnosticSegments ==
    Segments \cup { Segment("required", VarY, TRUE, <<"m">>),
                    Segment("required", VarX, FALSE, Required) }

DiagnosticDocument(g1, g2, g3) ==
    Obj("services" :>
        Obj("web" :> Obj(("image" :> Tmpl(SegmentText(g1)))
                         @@ ("command" :> Arr(<<Tmpl(SegmentText(g2)),
                                                Tmpl(SegmentText(g3))>>)))))

DiagnosticInit ==
    /\ pc = "p_parse"
    /\ yamlString \in { Yaml(DiagnosticDocument(g1, g2, g3)) :
                           g1 \in DiagnosticSegments, g2 \in DiagnosticSegments,
                           g3 \in DiagnosticSegments }
    /\ options \in [activeProfiles : {<<>>},
                    enableIncludes : {TRUE}, enableExtends : {TRUE},
                    enableVariables : {TRUE}, enableProfiles : {TRUE},
                    addMetadata : BOOLEAN]
    /\ env \in LenientEnvironments
    /\ basePath = PathA
    /\ fileMap = EmptyFn
    /\ errors = <<>>
    /\ meta = "none"
    /\ compose = Undef
    /\ result = "none"
    /\ NoString /\ NoHeap

SpecDiagnostics == DiagnosticInit /\ [][ParseNext]_vars

----------------------------------------------------------------------------
(* Properties of the diagnostics of the interpolation stage                 *)

\* the message of the diagnostic of a failing reference (lines 110-119)
ExpectedMessage(g) ==
    IF g.text = Required THEN MissingRequired \o g.name
    ELSE g.text \o <<" (">> \o g.name \o <<")">>

VariableDiagnostics ==
    {i \in DOMAIN result.errors : result.errors[i].type = "variable"}

\* the text an interpolated leaf of the result holds
LeafOut(x) == IF x.t = "obj" THEN Get(x, "_value").v ELSE x.v

ResultWeb == result.compose.v["services"].v["web"]

\* C23: in one run of parseCompose no two diagnostics of kind variable carry
\* the same message and variable name, however many leaves hold the same
\* failing reference; failures of different variables each get their own
\* diagnostic; and the leaves after a failure are still interpolated
C23_VariableDiagnosticsDeduplicated ==
    ParseReturned =>
        \A g1 \in DiagnosticSegments, g2 \in DiagnosticSegments,
           g3 \in DiagnosticSegments :
            yamlString.yaml = DiagnosticDocument(g1, g2, g3) =>
                LET failing == {g \in {g1, g2, g3} : SegmentFails(g)}
                    expected == {ExpectedMessage(g) : g \in failing}
                IN  /\ Cardinality(VariableDiagnostics) = Cardinality(expected)
                    /\ {result.errors[i].message.chain : i \in VariableDiagnostics}
                           = expected
                    /\ Cardinality({<<g.text, g.name>> : g \in failing})
                           = Cardinality(expected)
                    /\ LeafOut(Get(ResultWeb, "image")) = SegmentValue(g1)
                    /\ LeafOut(Get(ResultWeb, "command").v[1]) = SegmentValue(g2)
                    /\ LeafOut(Get(ResultWeb, "command").v[2]) = SegmentValue(g3)

\* the same reference fails in two leaves and a third leaf takes its default
C23_Witness ==
    /\ ParseReturned
    /\ yamlString.yaml =
           DiagnosticDocument(Segment("required", VarX, TRUE, <<"m">>),
                              Segment("required", VarX, TRUE, <<"m">>),
                              Segment("default", VarY, TRUE, <<"d">>))
    /\ env = [n \in {} |-> <<>>]
    /\ Cardinality(VariableDiagnostics) = 1
    /\ LeafOut(Get(ResultWeb, "command").v[2]) = <<"d">>

----------------------------------------------------------------------------
(* Properties of the include-not-found error                                *)

NotFoundRaised == pc = "done" /\ result.kind = "notfound"

\* the include resolveIncludes stopped at: the path as written, the path
\* it resolved to
RequestedPath == result.chain[1]
ResolvedPath == result.chain[2]

\* C24: resolveIncludes raises the include-not-found error, naming the
\* requested and the resolved path, exactly when the resolved path is not a
\* key of the FileMap; an include whose resolved path is a key is loaded,
\* whatever its text
C24_NotFoundIffNotAKey ==
    /\ NotFoundRaised => ResolvedPath \notin DOMAIN fileMap
    /\ (pc = "done" /\ ~IncludeCycle /\ AllLoadable) => result.kind = "ok"
    /\ (pc = "done" /\ \E p \in IncludeTargets(RootPath) : p \notin DOMAIN fileMap)
           => result.kind # "ok"

\* what does hold: the error names an include of a reached file whose
\* resolved path is not a key of the FileMap or is the key of an empty text
NotFoundIffMissingOrEmpty ==
    NotFoundRaised =>
        /\ \/ ResolvedPath \notin DOMAIN fileMap
           \/ fileMap[ResolvedPath] = EmptyText
        /\ \E p \in ReachedFiles :
              \E i \in DOMAIN IncludeList(FileDoc(p)) :
                  /\ Truthy(IncludePath(IncludeList(FileDoc(p))[i]))
                  /\ IncludePath(IncludeList(FileDoc(p))[i]).v = RequestedPath
                  /\ resolvePath(p, RequestedPath) = ResolvedPath

----------------------------------------------------------------------------
(* resolveAllExtends, call by call: the loop over the services of the       *)
(* mapping in its key order, the chain of calls of resolveServiceExtends    *)
(* that follows the extends of one service, and the merges on the way back  *)

ChainExtends ==
    { Undef, Str("a"), Str("b"), Str("c"), Str("zz"), Obj("service" :> Str("a")) }

ChainService(n, e) ==
    Obj(Field("extends", e) @@ ("image" :> Str(n)) @@ ("ports" :> Arr(<<Str(n)>>)))

ChainDocuments ==
    { Obj("services" :> Obj([n \in ServiceNames |-> ChainService(n, f[n])])) :
        f \in [ServiceNames -> ChainExtends] }

\* the orders in which a mapping can list the services
KeyOrders ==
    { o \in [1..Cardinality(ServiceNames) -> ServiceNames] :
        \A i, j \in DOMAIN o : o[i] = o[j] => i = j }

\* the state of the evaluation: the names the loop has still to visit, the
\* services of the calls in progress (innermost last), the set visited of
\* the innermost call, the value being returned, and resolvedServices
Walk(todo, calls, visited, ret, resolvedServices) ==
    [kind |-> "running", todo |-> todo, calls |-> calls, visited |-> visited,
     ret |-> ret, resolvedServices |-> resolvedServices]

ChainInit ==
    /\ pc = "loop"
    /\ compose \in ChainDocuments
    /\ result \in {Walk(o, <<>>, <<>>, Undef, EmptyFn) : o \in KeyOrders}
    /\ env = <<>>
    /\ NoFiles /\ NoString /\ NoParse /\ NoHeap

\* the mutant: the set of the previous service is passed on
FreshVisitedKept(visited) == visited

\* line 135, `visited = new Set()`: each service starts with an empty set
FreshVisited(visited) == <<>>

\* lines 177-179: the next service of the loop
EnterService ==
    /\ pc = "loop"
    /\ result.todo # <<>>
    /\ result' = [result EXCEPT !.todo = Tail(@),
                                !.calls = <<Head(result.todo)>>,
                                !.visited = FreshVisited(@)]
    /\ pc' = "call"
    /\ UNCHANGED <<compose, includeVars, interpVars, env, heap, parseVars>>

\* lines 136-157: one call of resolveServiceExtends, up to its recursive call
CallExtends ==
    /\ pc = "call"
    /\ LET allServices == Get(compose, "services")
           service == allServices.v[result.calls[Len(result.calls)]]
           extendedServiceName == ExtendedServiceName(service)
           extendedService == LookupService(allServices, extendedServiceName)
       IN  IF ~HasExtends(service)
           THEN /\ result' = [result EXCEPT !.ret = service]
                /\ pc' = "return"
           ELSE IF extendedServiceName \in Range(result.visited)
           THEN /\ result' = [Raise("circular",
                                    CircularChain(result.visited, extendedServiceName))
                                EXCEPT !.svc = result.calls[1]]
                /\ pc' = "done"
           ELSE IF ~Truthy(extendedService)
           THEN /\ result' = [Raise("notfound", <<extendedServiceName>>)
                                EXCEPT !.svc = result.calls[1]]
                /\ pc' = "done"
           ELSE /\ result' = [result EXCEPT
                                !.calls = Append(@, extendedServiceName.v),
                                !.visited = Append(@, extendedServiceName)]
                /\ pc' = "call"
    /\ UNCHANGED <<compose, includeVars, interpVars, env, heap, parseVars>>

\* lines 160-163 and 179: a call returns to its caller, which merges its own
\* service over the value; the outermost call returns to the loop
ReturnFromCall ==
    /\ pc = "return"
    /\ LET n == Len(result.calls)
       IN  IF n = 1
           THEN /\ result' = [result EXCEPT
                                !.calls = <<>>,
                                !.resolvedServices = (result.calls[1] :> result.ret) @@ @]
                /\ pc' = "loop"
           ELSE /\ result' = [result EXCEPT
                                !.calls = SubSeq(@, 1, n - 1),
                                !.ret = mergeServiceConfigs(result.ret,
                                            Without(Get(compose, "services").v[result.calls[n - 1]],
                                                    "extends"))]
                /\ pc' = "return"
    /\ UNCHANGED <<compose, includeVars, interpVars, env, heap, parseVars>>

\* lines 185-188
ReturnResolved ==
    /\ pc = "loop"
    /\ result.todo = <<>>
    /\ result' = Ok(Assign(compose, "services", Obj(result.resolvedServices)))
    /\ pc' = "done"
    /\ UNCHANGED <<compose, includeVars, interpVars, env, heap, parseVars>>

ChainNext == EnterService \/ CallExtends \/ ReturnFromCall \/ ReturnResolved

\* the code runs to completion: no step waits for anything
SpecChain == ChainInit /\ [][ChainNext]_vars /\ WF_vars(ChainNext)

----------------------------------------------------------------------------
(* Properties of the evaluation of resolveAllExtends                        *)

\* the chain of a circular error starts at the base of the failing service,
\* follows the extends links, and ends at a service it already holds
ReallyRevisits ==
    LET c == result.chain
        n == Len(c)
    IN  /\ n >= 2
        /\ c[1].v = Target(result.svc)
        /\ \A i \in 1..(n - 1) : Edge(c[i].v) /\ c[i + 1].v = Target(c[i].v)
        /\ \E i \in 1..(n - 1) : c[i] = c[n]

\* what the resolution of service n yields, computed for n alone
ResolvedAlone(n) == resolveServiceExtends(InServices[n], Get(compose, "services"), <<>>)

ChainSettled ==
    pc = "done" =>
        /\ result.kind = "circular" =>
               ReallyRevisits /\ OnCycle(result.chain[Len(result.chain)].v)
        /\ (~HasCycle /\ NoMissingBase) => result.kind = "ok"
        /\ result.kind = "ok" =>
               \A n \in ServiceNames : OutServices[n] = ResolvedAlone(n).val

\* C25: resolveAllExtends terminates on every services mapping; it raises
\* the circular-extends error only when the extends chain of some service
\* really revisits a service; acyclic documents (several services on one
\* base, chains of any length) resolve without error; and the result of
\* each service is the same for every order of the services in the mapping
C25_TerminatesCircularOnlyOnCycle ==
    /\ <>(pc = "done")
    /\ []ChainSettled

\* b and c both extend a, c is listed first: no error, and c has a's port
\* before its own
C25_Witness ==
    /\ pc = "done"
    /\ result.kind = "ok"
    /\ Get(InServices["b"], "extends") = Str("a")
    /\ Get(InServices["c"], "extends") = Obj("service" :> Str("a"))
    /\ ~HasExtends(InServices["a"])
    /\ Get(OutServices["c"], "ports") = Arr(<<Str("a"), Str("c")>>)
    /\ Get(OutServices["b"], "ports") = Arr(<<Str("a"), Str("b")>>)

----------------------------------------------------------------------------
(* Four files: the root a.yml, b.yml and sub/c.yml, which can both include  *)
(* sub/d.yml (a diamond), each spelling the path relative to itself         *)

PathD == <<"sub", "d.yml">>

BodyD ==
    ("services" :> Obj(("db" :> Entry("d", {"image", "user"}))
                       @@ ("cache" :> Entry("d", {"image"}))))
    @@ ("volumes" :> Obj("data" :> Entry("d", {"driver", "name"})))
    @@ ("version" :> Str("d"))

\* a file with the given body and list of include paths
FileWith(body, paths) ==
    IF paths = <<>> THEN Obj(body)
    ELSE Obj(("include" :> Arr([i \in DOMAIN paths |-> Path(paths[i])])) @@ body)

DiamondRootLists ==
    LET b == <<".", "b.yml">>
        c == <<"sub", "c.yml">>
    IN  { <<>>, <<b>>, <<c>>, <<b, c>>, <<c, b>>, <<b, b>>, <<c, c>> }

DiamondListsOfB ==
    { <<>>, <<<<"sub", "d.yml">>>>, <<<<"sub", "c.yml">>>>,
      <<<<"sub", "c.yml">>, <<".", "sub", "d.yml">>>>, <<<<"a.yml">>>> }

DiamondListsOfC ==
    { <<>>, <<<<".", "d.yml">>>>, <<<<"d.yml">>, <<"..", "sub", "d.yml">>>>,
      <<<<"..", "a.yml">>>> }

DiamondListsOfD == { <<>>, <<<<"..", "b.yml">>>> }

\* b.yml and sub/c.yml also carry a project name, sub/c.yml a version
DiamondBodyB == BodyB @@ ("name" :> Str("b"))
DiamondBodyC == BodyC @@ ("name" :> Str("c")) @@ ("version" :> Str("c"))

DiamondFileMaps ==
    { (PathB :> Yaml(FileWith(DiamondBodyB, b)))
      @@ (PathC :> Yaml(FileWith(DiamondBodyC, c)))
      @@ (PathD :> Yaml(FileWith(BodyD, d))) :
          b \in DiamondListsOfB, c \in DiamondListsOfC, d \in DiamondListsOfD }

DiamondInit ==
    /\ pc = "include"
    /\ compose \in {FileWith(BodyA, l) : l \in DiamondRootLists}
    /\ basePath = PathA
    /\ fileMap \in DiamondFileMaps
    /\ result = "none"
    /\ env = <<>>
    /\ NoString /\ NoParse /\ NoHeap

SpecDiamond == DiamondInit /\ [][IncludesNext]_vars

----------------------------------------------------------------------------
(* Properties of resolveIncludes on shared files                            *)

\* the reached files that include p, and whether p is reached twice: from
\* two files, or twice in the list of one file
Includers(p) == {q \in ReachedFiles : p \in IncludeTargets(q)}

ListedTwiceBy(q, p) ==
    LET includes == IncludeList(FileDoc(q))
    IN  \E i, j \in DOMAIN includes :
            /\ i # j
            /\ resolvePath(q, IncludePath(includes[i]).v) = p
            /\ resolvePath(q, IncludePath(includes[j]).v) = p

Shared(p) ==
    \/ Cardinality(Includers(p)) >= 2
    \/ \E q \in Includers(p) : ListedTwiceBy(q, p)

\* C26: only the ancestry chain of the current file counts as visited: a
\* circular-include error is raised only when the includes form a cycle, so
\* a file shared by two files (a diamond) or listed twice resolves without
\* error, and the shared file's entries are in the result
C26_SharedFileIsNotACycle ==
    pc = "done" =>
        /\ result.kind = "circular" => IncludeCycle
        /\ ~IncludeCycle =>
              /\ result.kind = "ok"
              /\ \A p \in ReachedFiles :
                    Shared(p) =>
                        \A c \in CollectionKeys :
                            CollectionNames(FileDoc(p), c)
                                \subseteq CollectionNames(result.val, c)

\* b.yml and sub/c.yml both include sub/d.yml
C26_Witness ==
    /\ pc = "done"
    /\ IncludeTargets(PathA) = {PathB, PathC}
    /\ IncludeTargets(PathB) = {PathD}
    /\ IncludeTargets(PathC) = {PathD}
    /\ IncludeTargets(PathD) = {}
    /\ result.kind = "ok"
    /\ Get(Get(result.val, "services"), "cache") = Entry("d", {"image"})

----------------------------------------------------------------------------
(* Properties of the precedence among included files                        *)

\* the resolved paths the file at p includes, in the listed order
IncludeTargetList(p) ==
    IF ~Truthy(Get(FileDoc(p), "include")) THEN <<>>
    ELSE LET includes == IncludeList(FileDoc(p))
         IN  [i \in DOMAIN includes |-> resolvePath(p, IncludePath(includes[i]).v)]

\* the files from p on in order of precedence, through at most k levels:
\* the file itself, then each of its includes in the listed order, each
\* followed by its own includes
RECURSIVE Precedence(_, _)
RECURSIVE PrecedenceOfAll(_, _)
PrecedenceOfAll(paths, k) ==
    IF paths = <<>> THEN <<>>
    ELSE Precedence(Head(paths), k) \o PrecedenceOfAll(Tail(paths), k)

Precedence(p, k) ==
    IF k = 0 THEN <<>>
    ELSE <<p>> \o PrecedenceOfAll(IncludeTargetList(p), k - 1)

\* the first file, in order of precedence, that satisfies Defines
FirstDefining(order, Defines(_)) ==
    order[CHOOSE i \in DOMAIN order :
              /\ Defines(order[i])
              /\ \A j \in 1..(i - 1) : ~Defines(order[j])]

\* the top-level keys that are not collections and not the include key
OtherKeys(d) == (DOMAIN Props(d)) \ (CollectionKeys \cup {"include"})

\* C27: the result holds, for every entry of a collection and for every
\* other top-level key, the definition of the first file that defines it in
\* the order: the including file, then its includes in the listed order,
\* each included file before its own includes
C27_FirstListedIncludeWins ==
    (pc = "done" /\ result.kind = "ok") =>
        LET order == Precedence(RootPath, FileCount)
        IN  /\ \A c \in CollectionKeys :
                  \A n \in CollectionNames(result.val, c) :
                      Get(Get(result.val, c), n) =
                          Get(Get(FileDoc(FirstDefining(order,
                                      LAMBDA p : n \in CollectionNames(FileDoc(p), c))),
                                  c), n)
            /\ \A k \in OtherKeys(result.val) :
                  Get(result.val, k) =
                      Get(FileDoc(FirstDefining(order,
                              LAMBDA p : k \in OtherKeys(FileDoc(p)))), k)

\* a.yml lists sub/c.yml before b.yml, and b.yml includes sub/d.yml: api and
\* the name are c's, the volume data is b's and not d's, db is c's
C27_Witness ==
    /\ pc = "done"
    /\ result.kind = "ok"
    /\ IncludeTargetList(PathA) = <<PathC, PathB>>
    /\ IncludeTargetList(PathB) = <<PathD>>
    /\ IncludeTargetList(PathC) = <<>>
    /\ Get(Get(result.val, "services"), "api") = Entry("c", {"image", "user"})
    /\ Get(Get(result.val, "services"), "web") = Entry("a", {"image"})
    /\ Get(Get(result.val, "volumes"), "data") = Entry("b", {"driver"})
    /\ Get(result.val, "name") = Str("c")
    /\ Get(result.val, "version") = Str("c")

----------------------------------------------------------------------------
(* The documents parseCompose is applied to with references in the profiles *)
(* of a service; a profile name is held as one character                    *)

DevName == <<"dev">>
ProdName == <<"prod">>

ProfileSegments ==
    { Segment("literal", <<>>, FALSE, DevName),
      Segment("default", VarX, TRUE, DevName),
      Segment("plain", VarX, FALSE, <<>>) }

\* the profiles of the service web as lists of segments: none, each segment
\* alone, each segment followed by the literal prod
ProfileLists ==
    {<<>>} \cup {<<g>> : g \in ProfileSegments}
           \cup {<<g, Segment("literal", <<>>, FALSE, ProdName)>> : g \in ProfileSegments}

\* the field profiles: absent, a scalar, or a list
ProfileFields ==
    {EmptyFn}
    \cup {"profiles" :> Tmpl(SegmentText(g)) : g \in ProfileSegments}
    \cup {"profiles" :> Arr([i \in DOMAIN l |-> Tmpl(SegmentText(l[i]))]) :
             l \in ProfileLists \ {<<>>}}

MetadataDocument(profiles) ==
    Obj("services" :>
        Obj(("base" :> Obj("image" :> Str("img")))
            @@ ("web" :> Obj(("image" :> Str("nginx")) @@ profiles))))

MetadataInit ==
    /\ pc = "p_parse"
    /\ yamlString \in {Yaml(MetadataDocument(f)) : f \in ProfileFields}
    /\ options \in [activeProfiles : {<<>>, <<Tmpl(DevName)>>, <<Tmpl(ProdName)>>},
                    enableIncludes : {TRUE}, enableExtends : {TRUE},
                    enableVariables : {TRUE}, enableProfiles : {TRUE},
                    addMetadata : BOOLEAN]
    /\ env \in {[n \in {} |-> <<>>], VarX :> DevName, VarX :> ProdName}
    /\ basePath = PathA
    /\ fileMap = EmptyFn
    /\ errors = <<>>
    /\ meta = "none"
    /\ compose = Undef
    /\ result = "none"
    /\ NoString /\ NoHeap

SpecMetadata == MetadataInit /\ [][ParseNext]_vars

----------------------------------------------------------------------------
(* Properties of the profile filter after interpolation                     *)

\* the profile names of web once its references are substituted: a scalar
\* is one name (none when it is empty), a list is its items
SubstitutedProfiles ==
    LET written == Get(Get(Get(yamlString.yaml, "services"), "web"), "profiles")
    IN  IF written = Undef THEN {}
        ELSE IF written.t = "tmpl"
        THEN {SegmentValue(g) : g \in {h \in ProfileSegments :
                                          /\ SegmentText(h) = written.v
                                          /\ SegmentValue(h) # <<>>}}
        ELSE UNION {{SegmentValue(l[i]) : i \in DOMAIN l} :
                       l \in {k \in ProfileLists :
                                 /\ Len(k) = Len(written.v)
                                 /\ \A i \in DOMAIN k :
                                        SegmentText(k[i]) = written.v[i].v}}

ActiveNames == {options.activeProfiles[i].v : i \in DOMAIN options.activeProfiles}

\* what the filter keeps of a document without metadata
KeptWithoutMetadata ==
    {"base"} \cup (IF SubstitutedProfiles = {} \/ SubstitutedProfiles \cap ActiveNames # {}
                   THEN {"web"} ELSE {})

FinalServiceNames == DOMAIN Props(Get(result.compose, "services"))

\* C28: the services of the final document are the same with and without
\* metadata: those that the filter keeps when every leaf is its
\* interpolated text
C28_MetadataKeepsSameServices ==
    ParseReturned => FinalServiceNames = KeptWithoutMetadata

\* the profile names of web that are written without a reference
PlainProfiles ==
    LET written == Get(Get(Get(yamlString.yaml, "services"), "web"), "profiles")
        IsPlain(x) == "$" \notin Range(x.v)
    IN  IF written = Undef THEN {}
        ELSE IF written.t = "tmpl" THEN (IF IsPlain(written) THEN {written.v} ELSE {})
        ELSE {written.v[i].v : i \in {j \in DOMAIN written.v : IsPlain(written.v[j])}}

\* what does hold: without metadata the filter sees the substituted names;
\* with metadata it sees only the names written without a reference
FilterSeesOnlyPlainProfiles ==
    ParseReturned =>
        IF ~options.addMetadata THEN FinalServiceNames = KeptWithoutMetadata
        ELSE FinalServiceNames =
                 {"base"} \cup (IF PlainProfiles = {} \/ PlainProfiles \cap ActiveNames # {}
                                THEN {"web"} ELSE {})

----------------------------------------------------------------------------
(* The strings made of "$$" escapes, references ${X} and the text {X}, on   *)
(* which the metadata stage extracts and the interpolation stage replaces   *)

MaxTokens == 3

EscapeTokens == { <<"$", "$">>, <<"$", "{", "X", "}">>, <<"{", "X", "}">> }

RECURSIVE TokenTexts(_)
TokenTexts(n) ==
    IF n = 0 THEN {<<>>}
    ELSE TokenTexts(n - 1) \cup {t \o k : t \in TokenTexts(n - 1), k \in EscapeTokens}

EscapesInit ==
    /\ pc = "extract"
    /\ str \in TokenTexts(MaxTokens)
    /\ env \in Environments
    /\ throwOnError = FALSE
    /\ compose = Undef
    /\ result = "none"
    /\ NoFiles /\ NoParse /\ NoHeap

\* parseCompose lines 90-91 and 107 on one leaf: extractVariables and
\* getUndefinedVariables, then interpolate
ExtractAndInterpolate ==
    /\ pc = "extract"
    /\ result' = [names |-> extractVariables(Tmpl(str)),
                  undefinedVariables |-> getUndefinedVariables(Tmpl(str), env),
                  interpolated |-> interpolateString(str, env, throwOnError)]
    /\ pc' = "done"
    /\ UNCHANGED <<compose, includeVars, interpVars, env, heap, parseVars>>

EscapesNext == ExtractAndInterpolate

SpecEscapes == EscapesInit /\ [][EscapesNext]_vars

----------------------------------------------------------------------------
(* Properties of extractVariables against interpolate                       *)

\* the variables interpolate looked up while replacing
LookedUp == Range(result.interpolated.variables)

\* C30: on a string of "$$" escapes and plain references, extractVariables
\* reports X exactly when interpolate replaces a ${X} of the string, so
\* every variable interpolate looks up is in the referenced set, and is
\* reported undefined when it is absent from the environment
C30_ExtractAgreesWithInterpolate ==
    pc = "done" =>
        /\ result.names = LookedUp
        /\ result.undefinedVariables = {n \in LookedUp : n \notin DOMAIN env}

\* what does hold: every variable extractVariables reports is looked up
ExtractedAreLookedUp ==
    pc = "done" =>
        /\ result.names \subseteq LookedUp
        /\ result.undefinedVariables = {n \in result.names : n \notin DOMAIN env}

========================================================================
